---------------------------- MODULE Spec2Model ----------------------------
(***************************************************************************)
(* ChakraWatch backend (src/app.py): the threat analyzer, the scraper      *)
(* manager, the database manager, the background ingestion task and the    *)
(* request handlers.                                                       *)
(*                                                                         *)
(* Text is a sequence of tokens.  A token is a maximal piece of a Python   *)
(* string that the keyword patterns of the analyzer never split: a run of  *)
(* word characters ("patch", "ed"), or one non-word character (" ", "-").  *)
(* The string is the concatenation of its tokens, so two adjacent word     *)
(* tokens form ONE word: <<"patch","ed">> is the string "patched".  The    *)
(* indicator and tag patterns and the LIKE of the database do split words: *)
(* they work on TextOf(tokens), the string itself, character by character. *)
(* A token such as "8.8.8.8" begins and ends with a word character and     *)
(* holds no threat keyword.  Instants are integers.                        *)
(***************************************************************************)
EXTENDS Integers, Sequences, FiniteSets, TLC

VARIABLES
    \* ---- the store and the ingestion pipeline ----
    threat_articles,  \* the committed rows of table threat_articles, in insertion order
    threat_sources,   \* settings.THREAT_SOURCES: source name -> [enabled, type, url]
    feed,             \* what each source's endpoint currently serves (the environment)
    run_pc,           \* position of the background task scrape_all_sources
    src_idx,          \* ScraperManager.scrape_all_sources: index of the next source
    all_articles,     \* ScraperManager.scrape_all_sources: the accumulated list
    fetch_failed,     \* sources whose request failed in the current pass
    sess,             \* per writer: the save_articles call and its SQLAlchemy session
    run_log,          \* the last line the background task logged (<<>>: none yet)
    run_result,       \* how the background task ended for its caller (<<>>: not yet)
    hist,             \* history of the previous and the current run (for the properties)
    \* ---- the analyzer, called on its own (POST /analyze) ----
    an_title, an_content,
    an_result,        \* <<>>, then the one result of the call
    \* ---- the endpoints /analyze, /search and /articles, /stats ----
    ex_text,          \* the text of a POST /analyze request
    ex_response,      \* <<>>, then the response to it
    q_request,        \* <<>>, then the filters, page and per_page of a search request
    q_response,       \* <<>>, then the PaginatedResponse to it
    stats_response    \* <<>>, then the dict get_statistics returned

vars == <<threat_articles, threat_sources, feed, run_pc, src_idx, all_articles, fetch_failed,
          sess, run_log, run_result, hist, an_title, an_content, an_result,
          ex_text, ex_response, q_request, q_response, stats_response>>

pipeVars == <<threat_articles, threat_sources, feed, run_pc, src_idx, all_articles, fetch_failed,
              sess, run_log, run_result, hist>>

anVars == <<an_title, an_content, an_result>>

apiVars == <<ex_text, ex_response, q_request, q_response, stats_response>>

\* no request has reached the endpoints
ApiIdle ==
    /\ ex_response = <<>>
    /\ ex_text = <<>>
    /\ q_request = <<>>
    /\ q_response = <<>>
    /\ stats_response = <<>>

-----------------------------------------------------------------------------
(* Bounds of the model *)

\* longest content, in tokens, given to the analyzer
MaxContentLen == 3
\* longest text, in tokens, posted to /analyze
MaxTextLen == 3
\* how many of the configured sources the model runs with
NumSources == 2
\* longest batch a direct caller hands to save_articles
MaxBatch == 2
\* the last page a client asks for first, and the most pages it pages through
MaxPage == 4
\* the rows of the large table of the query model
BulkRows == 45

-----------------------------------------------------------------------------
(* Python values *)

\* None, among token sequences
None == <<"None">>

\* the values a function returns to its caller: None, or an int
ReturnNone == [type |-> "NoneType", int |-> 0]
ReturnInt(n) == [type |-> "int", int |-> n]

\* Python's min(a, b) and max on integers
Min(a, b) == IF a <= b THEN a ELSE b

\* exact rationals for the float arithmetic of the confidence score
Rat(n, d) == [num |-> n, den |-> d]
RatLeq(a, b) == a.num * b.den <= b.num * a.den
RatEq(a, b) == a.num * b.den = b.num * a.den
\* Python's min(a, b): the first of the smallest
RatMin(a, b) == IF RatLeq(a, b) THEN a ELSE b
\* a / b
RatDiv(a, b) == Rat(a.num * b.den, a.den * b.num)

RECURSIVE SeqSum(_)
SeqSum(s) == IF s = <<>> THEN 0 ELSE Head(s) + SeqSum(Tail(s))

\* all sequences over S of length at most n
SeqsUpTo(S, n) == UNION {[1..k -> S] : k \in 0..n}

-----------------------------------------------------------------------------
(* Strings as token sequences *)

\* tokens that consist of one non-word character (\W of the re module)
NonWord == {" ", "-", ".", "<p>", "</p>"}
WhiteSpace == {" "}
IsWordTok(t) == t \notin NonWord

\* str.lower(): the tokens of the model that contain an upper-case letter
Lower(t) ==
    CASE t = "RCE" -> "rce"
      [] t = "Ransomware" -> "ransomware"
      [] t = "Critical" -> "critical"
      [] OTHER -> t
LowerStr(s) == [i \in 1..Len(s) |-> Lower(s[i])]

\* str.strip(): drop leading and trailing whitespace
RECURSIVE LStrip(_)
LStrip(s) == IF s # <<>> /\ Head(s) \in WhiteSpace THEN LStrip(Tail(s)) ELSE s
RECURSIVE RStrip(_)
RStrip(s) ==
    IF s # <<>> /\ s[Len(s)] \in WhiteSpace THEN RStrip(SubSeq(s, 1, Len(s) - 1)) ELSE s
Strip(s) == LStrip(RStrip(s))

\* f"{title} {content}"
FormatTitleContent(title, content) == title \o <<" ">> \o content

-----------------------------------------------------------------------------
(* Settings.THREAT_KEYWORDS *)

THREAT_KEYWORDS ==
    [critical |-> << <<"zero", "-", "day">>, <<"0day">>,
                     <<"critical", " ", "vulnerability">>, <<"ransomware">>,
                     <<"data", " ", "breach">>,
                     <<"supply", " ", "chain", " ", "attack">>, <<"rce">>,
                     <<"remote", " ", "code", " ", "execution">>,
                     <<"critical", " ", "security", " ", "flaw">>,
                     <<"emergency", " ", "patch">>,
                     <<"actively", " ", "exploited">> >>,
     high     |-> << <<"vulnerability">>, <<"exploit">>, <<"malware">>,
                     <<"phishing">>, <<"apt">>, <<"backdoor">>, <<"trojan">>,
                     <<"sql", " ", "injection">>,
                     <<"privilege", " ", "escalation">>,
                     <<"security", " ", "flaw">>, <<"code", " ", "execution">>,
                     <<"buffer", " ", "overflow">> >>,
     medium   |-> << <<"security", " ", "update">>, <<"patch">>, <<"warning">>,
                     <<"alert">>, <<"mitigation">>, <<"workaround">>,
                     <<"security", " ", "advisory">>,
                     <<"authentication", " ", "bypass">>,
                     <<"information", " ", "disclosure">>,
                     <<"denial", " ", "of", " ", "service">> >>,
     low      |-> << <<"security", " ", "news">>, <<"announcement">>, <<"report">>,
                     <<"advisory">>, <<"awareness">>, <<"security", " ", "tip">>,
                     <<"best", " ", "practices">> >>]

ThreatLevel == [LOW |-> "low", MEDIUM |-> "medium", HIGH |-> "high", CRITICAL |-> "critical"]

-----------------------------------------------------------------------------
(* ThreatAnalyzer.analyze_threat_level *)

\* the keyword's tokens stand at position i of text
TokensAt(kw, text, i) ==
    /\ i >= 1
    /\ i + Len(kw) - 1 <= Len(text)
    /\ \A k \in 1..Len(kw) : text[i + k - 1] = kw[k]

\* \b at the gap before position i (between text[i-1] and text[i]): exactly one
\* of the two neighbours is a word character
WordBoundary(text, i) ==
    LET before == i > 1 /\ i - 1 <= Len(text) /\ IsWordTok(text[i - 1])
        after  == i >= 1 /\ i <= Len(text) /\ IsWordTok(text[i])
    IN  before # after

\* r'\b' + re.escape(keyword) + r'\b' matches at position i
KeywordMatchAt(kw, text, i) ==
    /\ TokensAt(kw, text, i)
    /\ WordBoundary(text, i)
    /\ WordBoundary(text, i + Len(kw))

\* len(re.findall(pattern, text)): non-overlapping matches, scanning left to right
RECURSIVE FindAllFrom(_, _, _)
FindAllFrom(kw, text, i) ==
    IF i > Len(text) THEN 0
    ELSE IF KeywordMatchAt(kw, text, i)
         THEN 1 + FindAllFrom(kw, text, i + Len(kw))
         ELSE FindAllFrom(kw, text, i + 1)

FindAllCount(kw, text) == FindAllFrom(LowerStr(kw), text, 1)

\* the inner loop: score += matches, over the keywords of one level
LevelScore(level, text) ==
    LET keywords == THREAT_KEYWORDS[level]
    IN  SeqSum([k \in 1..Len(keywords) |-> FindAllCount(keywords[k], text)])

\* scores = {level: score}
Scores(text) == [level \in DOMAIN THREAT_KEYWORDS |-> LevelScore(level, text)]

\* the if/elif chain on the scores
DetermineLevelHighFirst(scores) ==
    IF scores["high"] > 0
    THEN [level |-> ThreatLevel.HIGH,
          confidence |-> RatMin(RatDiv(Rat(scores["high"], 1), Rat(2, 1)), Rat(1, 1))]
    ELSE IF scores["critical"] > 0
    THEN [level |-> ThreatLevel.CRITICAL,
          confidence |-> RatMin(RatDiv(Rat(scores["critical"], 1), Rat(3, 1)), Rat(1, 1))]
    ELSE IF scores["medium"] > 0
    THEN [level |-> ThreatLevel.MEDIUM,
          confidence |-> RatMin(RatDiv(Rat(scores["medium"], 1), Rat(3, 2)), Rat(1, 1))]
    ELSE [level |-> ThreatLevel.LOW, confidence |-> Rat(3, 10)]

DetermineLevelLowCounts(scores) ==
    IF scores["critical"] > 0
    THEN [level |-> ThreatLevel.CRITICAL,
          confidence |-> RatMin(RatDiv(Rat(scores["critical"], 1), Rat(3, 1)), Rat(1, 1))]
    ELSE IF scores["high"] > 0
    THEN [level |-> ThreatLevel.HIGH,
          confidence |-> RatMin(RatDiv(Rat(scores["high"], 1), Rat(2, 1)), Rat(1, 1))]
    ELSE IF scores["medium"] > 0
    THEN [level |-> ThreatLevel.MEDIUM,
          confidence |-> RatMin(RatDiv(Rat(scores["medium"], 1), Rat(3, 2)), Rat(1, 1))]
    ELSE [level |-> ThreatLevel.LOW,
          confidence |-> RatMin(RatDiv(Rat(3 + scores["low"], 1), Rat(10, 1)), Rat(1, 1))]

DetermineLevelPercent(scores) ==
    IF scores["critical"] > 0
    THEN [level |-> ThreatLevel.CRITICAL,
          confidence |-> RatMin(RatDiv(Rat(100 * scores["critical"], 1), Rat(3, 1)), Rat(100, 1))]
    ELSE IF scores["high"] > 0
    THEN [level |-> ThreatLevel.HIGH,
          confidence |-> RatMin(RatDiv(Rat(100 * scores["high"], 1), Rat(2, 1)), Rat(100, 1))]
    ELSE IF scores["medium"] > 0
    THEN [level |-> ThreatLevel.MEDIUM,
          confidence |-> RatMin(RatDiv(Rat(100 * scores["medium"], 1), Rat(3, 2)), Rat(100, 1))]
    ELSE [level |-> ThreatLevel.LOW, confidence |-> Rat(30, 1)]

DetermineLevelUncapped(scores) ==
    IF scores["critical"] > 0
    THEN [level |-> ThreatLevel.CRITICAL,
          confidence |-> RatDiv(Rat(scores["critical"], 1), Rat(3, 1))]
    ELSE IF scores["high"] > 0
    THEN [level |-> ThreatLevel.HIGH,
          confidence |-> RatDiv(Rat(scores["high"], 1), Rat(2, 1))]
    ELSE IF scores["medium"] > 0
    THEN [level |-> ThreatLevel.MEDIUM,
          confidence |-> RatDiv(Rat(scores["medium"], 1), Rat(3, 2))]
    ELSE [level |-> ThreatLevel.LOW, confidence |-> Rat(3, 10)]

DetermineLevel(scores) ==
    IF scores["critical"] > 0
    THEN [level |-> ThreatLevel.CRITICAL,
          confidence |-> RatMin(RatDiv(Rat(scores["critical"], 1), Rat(3, 1)), Rat(1, 1))]
    ELSE IF scores["high"] > 0
    THEN [level |-> ThreatLevel.HIGH,
          confidence |-> RatMin(RatDiv(Rat(scores["high"], 1), Rat(2, 1)), Rat(1, 1))]
    ELSE IF scores["medium"] > 0
    THEN [level |-> ThreatLevel.MEDIUM,
          confidence |-> RatMin(RatDiv(Rat(scores["medium"], 1), Rat(3, 2)), Rat(1, 1))]
    ELSE [level |-> ThreatLevel.LOW, confidence |-> Rat(3, 10)]

analyze_threat_level(title, content) ==
    LET text == LowerStr(FormatTitleContent(title, content))
    IN  DetermineLevel(Scores(text))

-----------------------------------------------------------------------------
(* Python str, character by character (the indicator and tag patterns split  *)
(* words, so they are matched on the characters of the text)                 *)

\* the character at position i of s (1-based), "" outside the string
Char(s, i) == IF 1 <= i /\ i <= Len(s) THEN SubSeq(s, i, i) ELSE ""

LowerLetters == "abcdefghijklmnopqrstuvwxyz"
UpperLetters == "ABCDEFGHIJKLMNOPQRSTUVWXYZ"
DigitChars == "0123456789"
CharsOf(s) == {SubSeq(s, i, i) : i \in 1..Len(s)}
Upper == CharsOf(UpperLetters)
Letter == CharsOf(LowerLetters) \cup Upper
Digit == CharsOf(DigitChars)
AlNum == Letter \cup Digit
\* \w
WordChar == AlNum \cup {"_"}
\* [a-fA-F0-9]
HexChar == Digit \cup CharsOf("abcdef") \cup CharsOf("ABCDEF")
\* [A-Za-z0-9._%+-], [A-Za-z0-9.-] and [A-Z|a-z] of the email pattern
EmailLocalChar == AlNum \cup {".", "_", "%", "+", "-"}
HostChar == AlNum \cup {".", "-"}
EmailLastChar == Letter \cup {"|"}

\* str.lower() of one character, and of a string
LowerOfUpper == [c \in Upper |-> LET k == CHOOSE i \in 1..26 : SubSeq(UpperLetters, i, i) = c
                                 IN  SubSeq(LowerLetters, k, k)]
LowerChar(c) == IF c \in Upper THEN LowerOfUpper[c] ELSE c
RECURSIVE LowerText(_)
LowerText(s) ==
    IF s = "" THEN "" ELSE LowerChar(SubSeq(s, 1, 1)) \o LowerText(SubSeq(s, 2, Len(s)))

\* the string a token sequence stands for
RECURSIVE TextOf(_)
TextOf(tokens) == IF tokens = <<>> THEN "" ELSE Head(tokens) \o TextOf(Tail(tokens))

\* \b between the characters i-1 and i of s
BoundaryAt(s, i) == (Char(s, i - 1) \in WordChar) # (Char(s, i) \in WordChar)

\* the last position of the longest run of characters of class C that starts
\* at i; i - 1 when the character at i is not in C
RECURSIVE SpanEnd(_, _, _)
SpanEnd(s, i, C) == IF Char(s, i) \in C THEN SpanEnd(s, i + 1, C) ELSE i - 1

\* the literal w stands at position i of s (re.IGNORECASE: compared lowered)
LiteralAt(s, i, w) ==
    /\ i + Len(w) - 1 <= Len(s)
    /\ LowerChar(Char(s, i)) = LowerChar(Char(w, 1))
    /\ LowerText(SubSeq(s, i, i + Len(w) - 1)) = LowerText(w)

\* str.split(sep) for a one-character sep
RECURSIVE SplitFrom(_, _, _, _)
SplitFrom(s, sep, i, from) ==
    IF i > Len(s) THEN <<SubSeq(s, from, Len(s))>>
    ELSE IF Char(s, i) = sep
    THEN <<SubSeq(s, from, i - 1)>> \o SplitFrom(s, sep, i + 1, i + 1)
    ELSE SplitFrom(s, sep, i + 1, from)
Split(s, sep) == SplitFrom(s, sep, 1, 1)

\* str.isdigit() and int(str), on ASCII digits
IsDigitStr(s) == s # "" /\ \A i \in 1..Len(s) : Char(s, i) \in Digit
DigitValue(c) == CHOOSE d \in 0..9 : SubSeq(DigitChars, d + 1, d + 1) = c
RECURSIVE ParseInt(_)
ParseInt(s) ==
    IF s = "" THEN 0
    ELSE 10 * ParseInt(SubSeq(s, 1, Len(s) - 1)) + DigitValue(Char(s, Len(s)))

\* a value that is a str, or a tuple of str (what re.findall returns for a
\* pattern without, and with, capturing groups)
PyStr(s) == [type |-> "str", str |-> s, items |-> <<>>]
PyTuple(items) == [type |-> "tuple", str |-> "", items |-> items]
\* len(value)
PyLen(v) == IF v.type = "str" THEN Len(v.str) ELSE Len(v.items)
\* '.' in value: a substring of a str, an element of a tuple
PyContains(c, v) ==
    IF v.type = "str"
    THEN \E i \in 1..Len(v.str) : LiteralAt(v.str, i, c) /\ SubSeq(v.str, i, i + Len(c) - 1) = c
    ELSE \E i \in 1..Len(v.items) : v.items[i] = c
\* f"{value}": the str itself, the repr of a tuple
RECURSIVE JoinRepr(_)
JoinRepr(items) ==
    IF items = <<>> THEN ""
    ELSE "'" \o Head(items) \o "'" \o (IF Len(items) > 1 THEN ", " ELSE "")
         \o JoinRepr(Tail(items))
PyFormat(v) == IF v.type = "str" THEN v.str ELSE "(" \o JoinRepr(v.items) \o ")"

-----------------------------------------------------------------------------
(* ThreatAnalyzer.ioc_patterns: for each pattern, the end of the match that  *)
(* starts at position i of the text, 0 when there is none                    *)

\* [0-9]{1,3} followed by what cannot be a digit: the whole run, of 1..3 digits
OctetEnd(s, i) ==
    LET e == SpanEnd(s, i, Digit)
    IN  IF e >= i /\ e - i + 1 <= 3 THEN e ELSE 0

\* \b(?:[0-9]{1,3}\.){3}[0-9]{1,3}\b
IpMatchEnd(s, i) ==
    IF ~BoundaryAt(s, i) THEN 0
    ELSE LET e1 == OctetEnd(s, i)
         IN  IF e1 = 0 \/ Char(s, e1 + 1) # "." THEN 0
             ELSE LET e2 == OctetEnd(s, e1 + 2)
                  IN  IF e2 = 0 \/ Char(s, e2 + 1) # "." THEN 0
                      ELSE LET e3 == OctetEnd(s, e2 + 2)
                           IN  IF e3 = 0 \/ Char(s, e3 + 1) # "." THEN 0
                               ELSE LET e4 == OctetEnd(s, e3 + 2)
                                    IN  IF e4 # 0 /\ BoundaryAt(s, e4 + 1) THEN e4 ELSE 0

\* \b[a-fA-F0-9]{n}\b
HexMatchEnd(s, i, n) ==
    IF /\ BoundaryAt(s, i)
       /\ SpanEnd(s, i, HexChar) >= i + n - 1
       /\ BoundaryAt(s, i + n)
    THEN i + n - 1 ELSE 0

\* CVE-\d{4}-\d{4,}
CveMatchEnd(s, i) ==
    IF /\ LiteralAt(s, i, "CVE-")
       /\ SpanEnd(s, i + 4, Digit) >= i + 7
       /\ Char(s, i + 8) = "-"
       /\ SpanEnd(s, i + 9, Digit) >= i + 12
    THEN SpanEnd(s, i + 9, Digit) ELSE 0

\* the largest element of a set of integers, 0 for the empty set
MaxOf(S) == IF S = {} THEN 0 ELSE CHOOSE e \in S : \A f \in S : f <= e

\* \.[A-Z|a-z]{2,}\b with the dot at position d: the end of the longest run of
\* two or more such characters after the dot that a \b follows, 0 if none
EmailLastEnd(s, d) ==
    IF Char(s, d) # "." THEN 0
    ELSE MaxOf({t \in d + 2 .. SpanEnd(s, d + 1, EmailLastChar) : BoundaryAt(s, t + 1)})

\* \b[A-Za-z0-9._%+-]+@[A-Za-z0-9.-]+\.[A-Z|a-z]{2,}\b: the local part is the
\* whole run before the @; the domain part is taken as long as possible, then
\* the last part as long as possible, such that a dot stands between them and
\* a \b after them
EmailMatchEnd(s, i) ==
    IF ~BoundaryAt(s, i) THEN 0
    ELSE LET e1 == SpanEnd(s, i, EmailLocalChar)
             q == SpanEnd(s, e1 + 2, HostChar)
             dots == {d \in e1 + 3 .. q : EmailLastEnd(s, d) # 0}
         IN  IF e1 < i \/ Char(s, e1 + 1) # "@" \/ dots = {} THEN 0
             ELSE EmailLastEnd(s, MaxOf(dots))

\* [a-zA-Z0-9]([a-zA-Z0-9\-]{0,61}[a-zA-Z0-9])?: one label of a host name
IsLabel(w) ==
    /\ 1 <= Len(w) /\ Len(w) <= 63
    /\ Char(w, 1) \in AlNum
    /\ Char(w, Len(w)) \in AlNum
    /\ \A k \in 1..Len(w) : Char(w, k) \in HostChar /\ Char(w, k) # "."

\* the text i..e is label(.label)*.letters{2,}
IsHostName(s, i, e) ==
    LET labels == Split(SubSeq(s, i, e), ".")
        tld == labels[Len(labels)]
    IN  /\ Len(labels) >= 2
        /\ \A k \in 1..Len(labels) - 1 : IsLabel(labels[k])
        /\ Len(tld) >= 2
        /\ \A k \in 1..Len(tld) : Char(tld, k) \in Letter

\* \b label (\.label)* \.[a-zA-Z]{2,} \b: every part is taken as long as
\* possible, which gives the longest host name that starts at i
DomainMatchEnd(s, i) ==
    LET q == SpanEnd(s, i, HostChar)
        ends == {e \in i + 3 .. q :
                    BoundaryAt(s, e + 1) /\ Char(s, e) \in Letter /\ IsHostName(s, i, e)}
    IN  IF ~BoundaryAt(s, i) THEN 0 ELSE MaxOf(ends)

\* the three capturing groups of the domain pattern for the match w: the
\* first label after its first character; the last repetition of (\.label);
\* the last label of the repetitions that has more than one character, after
\* its first character.  A group that took no part is ''.
RECURSIVE LastLong(_)
LastLong(labels) ==
    IF labels = <<>> THEN ""
    ELSE IF Len(labels[Len(labels)]) > 1
    THEN SubSeq(labels[Len(labels)], 2, Len(labels[Len(labels)]))
    ELSE LastLong(SubSeq(labels, 1, Len(labels) - 1))
DomainGroups(w) ==
    LET labels == Split(w, ".")
        middle == SubSeq(labels, 2, Len(labels) - 1)
    IN  << SubSeq(labels[1], 2, Len(labels[1])),
           IF middle = <<>> THEN "" ELSE "." \o middle[Len(middle)],
           LastLong(middle) >>

ioc_types == <<"ip", "domain", "hash_md5", "hash_sha256", "cve", "email">>

MatchEnd(ioc_type, s, i) ==
    CASE ioc_type = "ip" -> IpMatchEnd(s, i)
      [] ioc_type = "domain" -> DomainMatchEnd(s, i)
      [] ioc_type = "hash_md5" -> HexMatchEnd(s, i, 32)
      [] ioc_type = "hash_sha256" -> HexMatchEnd(s, i, 64)
      [] ioc_type = "cve" -> CveMatchEnd(s, i)
      [] ioc_type = "email" -> EmailMatchEnd(s, i)

\* re.findall(pattern, text, re.IGNORECASE): the matches from left to right,
\* none overlapping; the matched str, or the tuple of the groups when the
\* pattern has capturing groups
RECURSIVE FindAllFromChar(_, _, _)
FindAllFromChar(ioc_type, s, i) ==
    IF i > Len(s) THEN <<>>
    ELSE LET e == MatchEnd(ioc_type, s, i)
         IN  IF e = 0 THEN FindAllFromChar(ioc_type, s, i + 1)
             ELSE << IF ioc_type = "domain"
                     THEN PyTuple(DomainGroups(SubSeq(s, i, e)))
                     ELSE PyStr(SubSeq(s, i, e)) >>
                  \o FindAllFromChar(ioc_type, s, e + 1)
FindAllIoc(ioc_type, text) == FindAllFromChar(ioc_type, text, 1)

-----------------------------------------------------------------------------
(* ThreatAnalyzer.extract_iocs and ThreatAnalyzer.extract_tags *)

ValidateNothing(ioc_type, value) == TRUE

validate_ioc(ioc_type, value) ==
    IF ioc_type = "ip"
    THEN LET parts == Split(value.str, ".")
         IN  \A k \in 1..Len(parts) :
                IsDigitStr(parts[k]) => (0 <= ParseInt(parts[k]) /\ ParseInt(parts[k]) <= 255)
    ELSE IF ioc_type = "domain"
    THEN PyLen(value) > 4 /\ PyContains(".", value)
    ELSE TRUE

\* the inner loop of extract_iocs: f"{ioc_type}:{match}" for the valid matches
RECURSIVE ValidMatches(_, _)
ValidMatches(ioc_type, matches) ==
    IF matches = <<>> THEN <<>>
    ELSE (IF validate_ioc(ioc_type, Head(matches))
          THEN <<ioc_type \o ":" \o PyFormat(Head(matches))>>
          ELSE <<>>)
         \o ValidMatches(ioc_type, Tail(matches))

\* the outer loop: the list iocs before its duplicates are removed
RECURSIVE IocsOfTypes(_, _)
IocsOfTypes(types, text) ==
    IF types = <<>> THEN <<>>
    ELSE ValidMatches(Head(types), FindAllIoc(Head(types), text))
         \o IocsOfTypes(Tail(types), text)

SeqRange(l) == {l[i] : i \in 1..Len(l)}

\* list(set(l)): the distinct elements of l, in an order the str hashing of
\* the process decides; every order is a possible value
ListOfSetKeepsAll(l) == {l}
ListOfSet(l) ==
    LET S == SeqRange(l)
    IN  {f \in [1..Cardinality(S) -> S] : \A i, j \in 1..Cardinality(S) : f[i] = f[j] => i = j}

\* the lists extract_iocs(text) can return
extract_iocs(text) == ListOfSet(IocsOfTypes(ioc_types, text))

\* ThreatAnalyzer.tag_patterns, in dict order: \b(alt1|alt2|...)\b
tag_patterns ==
    << [tag |-> "malware", alts |-> <<"malware", "virus", "trojan", "spyware", "rootkit", "worm">>],
       [tag |-> "ransomware", alts |-> <<"ransomware", "crypto", "encryption">>],
       [tag |-> "phishing", alts |-> <<"phishing", "social engineering", "scam">>],
       [tag |-> "vulnerability", alts |-> <<"vulnerability", "cve", "exploit", "zero-day">>],
       [tag |-> "data-breach", alts |-> <<"data breach", "leak", "stolen data">>],
       [tag |-> "apt", alts |-> <<"apt", "advanced persistent threat">>],
       [tag |-> "mobile", alts |-> <<"android", "ios", "mobile", "smartphone">>],
       [tag |-> "cloud", alts |-> <<"cloud", "aws", "azure", "google cloud">>],
       [tag |-> "iot", alts |-> <<"iot", "internet of things">>],
       [tag |-> "cryptocurrency",
        alts |-> <<"bitcoin", "cryptocurrency", "crypto", "blockchain">>] >>

\* re.search(r'\b(alt1|alt2|...)\b', text, re.IGNORECASE)
\* (every alternative begins with a word character, so a match begins where
\* a word begins)
WordStarts(text) == {i \in 1..Len(text) : BoundaryAt(text, i) /\ Char(text, i) \in WordChar}
TagSearch(alts, text, starts) ==
    \E i \in starts : \E k \in 1..Len(alts) :
        /\ LiteralAt(text, i, alts[k])
        /\ BoundaryAt(text, i + Len(alts[k]))

RECURSIVE TagsOf(_, _, _)
TagsOf(patterns, text, starts) ==
    IF patterns = <<>> THEN <<>>
    ELSE (IF TagSearch(Head(patterns).alts, text, starts)
          THEN <<Head(patterns).tag>> ELSE <<>>)
         \o TagsOf(Tail(patterns), text, starts)

extract_tags(title, content) ==
    LET text == LowerText(title \o " " \o content)
        starts == WordStarts(text)
    IN  TagsOf(tag_patterns, text, starts)

-----------------------------------------------------------------------------
(* Settings: the sources *)

MAX_ARTICLES_PER_SOURCE == 20

\* the keys of Settings.THREAT_SOURCES, in dict order
SourceOrder == <<"security_affairs", "bleeping_computer", "hacker_news_rss", "cyware">>
Sources == SubSeq(SourceOrder, 1, NumSources)
SourceSet == {Sources[i] : i \in 1..Len(Sources)}

SourceUrl(s) ==
    CASE s = "security_affairs" -> <<"https://securityaffairs.com", "/feed">>
      [] s = "bleeping_computer" -> <<"https://www.bleepingcomputer.com", "/feed/">>
      [] s = "hacker_news_rss" -> <<"https://feeds.feedburner.com", "/TheHackersNews">>
      [] s = "cyware" -> <<"https://cyware.com", "/allnews.rss">>

\* the configuration as shipped: every source enabled, every source an RSS feed
ShippedSources ==
    [s \in SourceSet |-> [enabled |-> TRUE, type |-> "rss", url |-> SourceUrl(s)]]

\* the configurations the model runs with: as shipped, and with the first
\* source disabled and the last source scraped as an HTML page
Configs ==
    {ShippedSources,
     [ShippedSources EXCEPT ![Sources[1]].enabled = FALSE,
                            ![Sources[Len(Sources)]].type = "html"]}

-----------------------------------------------------------------------------
(* What the sources serve *)

\* one feed entry (RSS) or one article container (HTML): title is the entry's
\* title / the text of the container's first heading, summary the entry's
\* summary / the first paragraph, link the entry's link / the href of the
\* first anchor, published the instant of the entry's published_parsed (an
\* HTML container has none).  None is a missing key or a missing element.
EntryCritical ==
    [title |-> <<"RCE", " ", "patch">>, summary |-> <<"<p>", "report", "</p>">>,
     link |-> <<"https://news.example", "/1">>, published |-> 3]
EntryRetitled ==
    [title |-> <<"patch">>, summary |-> <<>>, link |-> <<"https://news.example", "/1">>,
     published |-> 1]
EntryPadded ==
    [title |-> <<" ", "vulnerability", " ">>, summary |-> None,
     link |-> <<"https://news.example", "/2">>, published |-> 0]
EntryNoTitle ==
    [title |-> <<" ">>, summary |-> <<"patch">>, link |-> <<"https://news.example", "/2">>,
     published |-> 2]
EntryNoLink ==
    [title |-> <<"report">>, summary |-> <<>>, link |-> None, published |-> 2]

FeedContents ==
    {<<>>, <<EntryCritical>>, <<EntryRetitled>>,
     <<EntryNoTitle, EntryNoLink, EntryPadded>>}

\* a source that serves more entries than a run takes: n entries with links
\* of their own
MaxEntries == 22
LongFeed(s, n) ==
    [i \in 1..n |->
        [title |-> <<"report">>, summary |-> <<>>,
         link |-> <<"https://news.example", "/" \o s \o "/" \o ToString(i)>>,
         published |-> 2]]
LongFeeds(s) == {LongFeed(s, n) : n \in MAX_ARTICLES_PER_SOURCE..MaxEntries}

\* BeautifulSoup(summary).get_text(strip=True): the text nodes between the
\* tags, each stripped, joined with nothing
IsTag(t) == t \in {"<p>", "</p>"}
RECURSIVE GetText(_, _)
GetText(s, node) ==
    IF s = <<>> THEN Strip(node)
    ELSE IF IsTag(Head(s)) THEN Strip(node) \o GetText(Tail(s), <<>>)
    ELSE GetText(Tail(s), Append(node, Head(s)))

\* urllib.parse.urljoin(base, href) for an absolute URL, a path, or ''
IsAbsoluteUrl(href) == Len(href) > 1
Urljoin(base, href) ==
    IF href = <<>> THEN base
    ELSE IF IsAbsoluteUrl(href) THEN href
    ELSE <<Head(base)>> \o href

\* datetime.now() while the model's runs fetch: instants are integers, and
\* the runs of the model happen at one instant, later than every date a feed
\* carries (an entry with published 0 has no published_parsed)
datetime_now == 5
PublishedDate(entry) == IF entry.published # 0 THEN entry.published ELSE datetime_now

\* the dict both scrapers append to their list.  The texts the sources of the
\* model serve hold at most one indicator, so extract_iocs can return one list.
ArticleDict(title, summary, url, source_name, published_date) ==
    LET content == summary
        r == analyze_threat_level(title, content)
        text == TextOf(title) \o " " \o TextOf(content)
    IN  [title |-> title, summary |-> summary, content |-> content, url |-> url,
         source_name |-> source_name, published_date |-> published_date,
         threat_level |-> r.level, confidence_score |-> r.confidence,
         tags |-> extract_tags(TextOf(title), TextOf(content)),
         iocs |-> CHOOSE iocs \in extract_iocs(text) : TRUE]

\* entry.get(key, '')
EntryGet(entry, key) == IF entry[key] = None THEN <<>> ELSE entry[key]

\* the body of the loop over feed.entries[:MAX_ARTICLES_PER_SOURCE]
RECURSIVE RssArticles(_, _)
RssArticles(entries, source_name) ==
    IF entries = <<>> THEN <<>>
    ELSE LET entry == Head(entries)
             title == Strip(EntryGet(entry, "title"))
             summary == Strip(EntryGet(entry, "summary"))
             url == Strip(EntryGet(entry, "link"))
             rest == RssArticles(Tail(entries), source_name)
         IN  IF title = <<>> \/ url = <<>>
             THEN rest
             ELSE <<ArticleDict(title,
                                IF summary # <<>> THEN GetText(summary, <<>>) ELSE summary,
                                url, source_name, PublishedDate(entry))>> \o rest

\* scrape_rss_feed once the response has arrived
scrape_rss_feed_all(source_name, entries) == RssArticles(entries, source_name)

scrape_rss_feed(source_name, entries) ==
    IF entries = <<>> THEN <<>>
    ELSE RssArticles(SubSeq(entries, 1, Min(Len(entries), MAX_ARTICLES_PER_SOURCE)),
                     source_name)

\* the body of the loop over article_containers[:MAX_ARTICLES_PER_SOURCE]
RECURSIVE HtmlArticles(_, _, _)
HtmlArticles(containers, source_name, base) ==
    IF containers = <<>> THEN <<>>
    ELSE LET c == Head(containers)
             rest == HtmlArticles(Tail(containers), source_name, base)
         IN  IF c.title = None \/ c.link = None
             THEN rest
             ELSE <<ArticleDict(Strip(c.title),
                                IF c.summary = None THEN <<>> ELSE GetText(c.summary, <<>>),
                                Urljoin(base, c.link), source_name, datetime_now)>> \o rest

\* scrape_html_source once the response has arrived
scrape_html_source(source_name, containers, base) ==
    HtmlArticles(SubSeq(containers, 1, Min(Len(containers), MAX_ARTICLES_PER_SOURCE)),
                 source_name, base)

-----------------------------------------------------------------------------
(* DatabaseManager.save_articles and the table threat_articles *)

\* json.dumps(l) of a list of str without quotes or backslashes, and the
\* json.loads of such a text
RECURSIVE JsonItems(_)
JsonItems(l) ==
    IF l = <<>> THEN ""
    ELSE "\"" \o Head(l) \o "\"" \o (IF Len(l) > 1 THEN ", " ELSE "") \o JsonItems(Tail(l))
JsonDumps(l) == "[" \o JsonItems(l) \o "]"
RECURSIVE JsonStrings(_, _)
JsonStrings(text, i) ==
    IF Char(text, i) # "\"" THEN <<>>
    ELSE LET e == CHOOSE k \in i + 1 .. Len(text) :
                     Char(text, k) = "\"" /\ \A j \in i + 1 .. k - 1 : Char(text, j) # "\""
         IN  <<SubSeq(text, i + 1, e - 1)>>
             \o JsonStrings(text, IF Char(text, e + 1) = "," THEN e + 3 ELSE e + 1)
JsonLoads(text) == JsonStrings(text, 2)

\* the row save_articles builds from one dict (ThreatArticle and its defaults)
NewRow(article_data) ==
    [title |-> article_data.title, summary |-> article_data.summary,
     content |-> article_data.content, url |-> article_data.url,
     source_name |-> article_data.source_name,
     published_date |-> article_data.published_date,
     threat_level |-> article_data.threat_level,
     confidence_score |-> article_data.confidence_score,
     tags |-> JsonDumps(article_data.tags),
     iocs |-> JsonDumps(article_data.iocs),
     scraped_date |-> 0, views |-> 0, bookmarked |-> FALSE]

\* scraped_date = Column(DateTime, default=sql_func.now()): the INSERT of a
\* row gives it the instant of the database; until then the row has none (0).
\* The runs after the first one happen one instant later than the first.
sql_now(h) == IF h.prev_ran THEN datetime_now + 1 ELSE datetime_now
Stamp(pending, now) ==
    [k \in 1..Len(pending) |-> [pending[k] EXCEPT !.scraped_date = now]]

StoredUrls(table) == {table[i].url : i \in 1..Len(table)}

\* session.query(ThreatArticle).filter(url == ...).first(): the session was
\* made with autoflush=False, so the query sees the committed rows only, not
\* the rows this session has added and not yet flushed
QueryNeverFinds(table, pending, url) == FALSE

ExistingQuery(table, pending, url) ==
    \E i \in 1..Len(table) : table[i].url = url

\* the constraints of the table on one INSERT: url unique and not null, title
\* not null
InsertOkNoUnique(table, row) ==
    /\ row.url # None
    /\ row.title # None

InsertOk(table, row) ==
    /\ row.url # None
    /\ row.title # None
    /\ row.url \notin StoredUrls(table)

\* the flush of session.commit(): the pending rows are inserted in order, up
\* to the first one the table refuses
RECURSIVE Flush(_, _)
Flush(table, pending) ==
    IF pending = <<>> THEN [ok |-> TRUE, table |-> table]
    ELSE IF InsertOk(table, Head(pending))
         THEN Flush(Append(table, Head(pending)), Tail(pending))
         ELSE [ok |-> FALSE, table |-> table]

\* session.rollback(): the table as it was committed, whatever was flushed
RollbackKeepsFlushed(committed, flushed) == flushed

Rollback(committed, flushed) == committed

IdleSession ==
    [pc |-> "idle", articles_data |-> <<>>, idx |-> 0, pending |-> <<>>,
     saved_count |-> 0, fault |-> FALSE]

\* the call: session = self.get_session(); saved_count = 0
SaveCalled(batch) ==
    [pc |-> "loop", articles_data |-> batch, idx |-> 1, pending |-> <<>>,
     saved_count |-> 0, fault |-> FALSE]

\* one pass of the loop over articles_data
SaveRecordUpsert(w) ==
    LET s == sess[w]
        article_data == s.articles_data[s.idx]
        existing == ExistingQuery(threat_articles, s.pending, article_data.url)
    IN  /\ s.pc = "loop"
        /\ s.idx <= Len(s.articles_data)
        /\ IF existing
           THEN /\ sess' = [sess EXCEPT ![w].idx = s.idx + 1]
                /\ threat_articles' =
                       [i \in 1..Len(threat_articles) |->
                           IF threat_articles[i].url = article_data.url
                           THEN [threat_articles[i] EXCEPT !.title = article_data.title]
                           ELSE threat_articles[i]]
           ELSE /\ sess' = [sess EXCEPT ![w].idx = s.idx + 1,
                                        ![w].pending = Append(s.pending, NewRow(article_data)),
                                        ![w].saved_count = s.saved_count + 1]
                /\ UNCHANGED threat_articles

SaveRecordRefreshes(w) ==
    LET s == sess[w]
        article_data == s.articles_data[s.idx]
        existing == ExistingQuery(threat_articles, s.pending, article_data.url)
    IN  /\ s.pc = "loop"
        /\ s.idx <= Len(s.articles_data)
        /\ IF existing
           THEN /\ sess' = [sess EXCEPT ![w].idx = s.idx + 1]
                /\ threat_articles' =
                       [i \in 1..Len(threat_articles) |->
                           IF threat_articles[i].url = article_data.url
                           THEN [threat_articles[i] EXCEPT !.scraped_date = sql_now(hist)]
                           ELSE threat_articles[i]]
           ELSE /\ sess' = [sess EXCEPT ![w].idx = s.idx + 1,
                                        ![w].pending = Append(s.pending, NewRow(article_data)),
                                        ![w].saved_count = s.saved_count + 1]
                /\ UNCHANGED threat_articles

SaveRecordCountsAll(w) ==
    LET s == sess[w]
        article_data == s.articles_data[s.idx]
        existing == ExistingQuery(threat_articles, s.pending, article_data.url)
    IN  /\ s.pc = "loop"
        /\ s.idx <= Len(s.articles_data)
        /\ IF existing
           THEN sess' = [sess EXCEPT ![w].idx = s.idx + 1,
                                     ![w].saved_count = s.saved_count + 1]
           ELSE sess' = [sess EXCEPT ![w].idx = s.idx + 1,
                                     ![w].pending = Append(s.pending, NewRow(article_data)),
                                     ![w].saved_count = s.saved_count + 1]
        /\ UNCHANGED threat_articles

SaveRecord(w) ==
    LET s == sess[w]
        article_data == s.articles_data[s.idx]
        existing == ExistingQuery(threat_articles, s.pending, article_data.url)
    IN  /\ s.pc = "loop"
        /\ s.idx <= Len(s.articles_data)
        /\ IF existing
           THEN sess' = [sess EXCEPT ![w].idx = s.idx + 1]
           ELSE sess' = [sess EXCEPT ![w].idx = s.idx + 1,
                                     ![w].pending = Append(s.pending, NewRow(article_data)),
                                     ![w].saved_count = s.saved_count + 1]
        /\ UNCHANGED threat_articles

\* session.commit() after the loop; on IntegrityError the except clause:
\* session.rollback(), raise.  finally: session.close()
SaveCommit(w) ==
    LET s == sess[w]
        inserted == Stamp(s.pending, sql_now(hist))
        f == Flush(threat_articles, inserted)
    IN  /\ s.pc = "loop"
        /\ s.idx > Len(s.articles_data)
        /\ IF f.ok
           THEN /\ threat_articles' = f.table
                /\ sess' = [sess EXCEPT ![w].pc = "returned", ![w].pending = inserted]
           ELSE /\ threat_articles' = Rollback(threat_articles, f.table)
                /\ sess' = [sess EXCEPT ![w].pc = "raised"]

\* a storage-engine error (the database locked, the disk full) in a query of
\* the loop or in the flush, after k pending rows were written: the except
\* clause rolls back and re-raises
SaveFault(w) ==
    LET s == sess[w]
    IN  /\ s.pc = "loop"
        /\ \E k \in 0..Len(s.pending) :
              LET f == Flush(threat_articles, SubSeq(s.pending, 1, k))
              IN  threat_articles' = Rollback(threat_articles, f.table)
        /\ sess' = [sess EXCEPT ![w].pc = "raised", ![w].fault = TRUE]

-----------------------------------------------------------------------------
(* DatabaseManager.search_articles and DatabaseManager.get_statistics *)

\* SearchFilters: an absent Optional[List[str]] is None; an Optional[datetime]
\* or Optional[bool] is <<>> when absent and <<v>> when given
SearchFilters(keywords, threat_levels, sources, date_from, date_to, has_iocs) ==
    [keywords |-> keywords, threat_levels |-> threat_levels, sources |-> sources,
     date_from |-> date_from, date_to |-> date_to, has_iocs |-> has_iocs]

\* bool(l) of an Optional[List[str]]: None and [] are false
IsNotNone(l) == l # None

Truthy(l) == l # None /\ l # <<>>

\* what a session reads from the table: the rows that are committed, never the
\* rows another session has added or flushed and not committed
ReadUncommitted(table, sessions) ==
    LET w == CHOOSE x \in DOMAIN sessions : \A y \in DOMAIN sessions :
                 Len(sessions[y].pending) <= Len(sessions[x].pending)
    IN  table \o sessions[w].pending

ReadCommitted(table, sessions) == table

\* SQLite's LIKE: % stands for any run of characters, _ for one character
RECURSIVE LikeFrom(_, _, _, _)
LikeFrom(pattern, s, i, j) ==
    IF i > Len(pattern) THEN j > Len(s)
    ELSE IF Char(pattern, i) = "%"
         THEN \E k \in j .. Len(s) + 1 : LikeFrom(pattern, s, i + 1, k)
         ELSE /\ j <= Len(s)
              /\ Char(pattern, i) \in {"_", Char(s, j)}
              /\ LikeFrom(pattern, s, i + 1, j + 1)
Like(s, pattern) == LikeFrom(pattern, s, 1, 1)

\* column.ilike(pattern): lower(column) LIKE lower(pattern)
ILike(column, pattern) == Like(LowerText(column), LowerText(pattern))

\* the or_ of the three ilike for one keyword
KeywordCondition(row, keyword) ==
    LET keyword_like == "%" \o keyword \o "%"
    IN  \/ ILike(TextOf(row.title), keyword_like)
        \/ ILike(TextOf(row.summary), keyword_like)
        \/ ILike(TextOf(row.content), keyword_like)

\* the JSON column type stores json.dumps(value): of a Python str, the str
\* between double quotes with its quotes and backslashes escaped
RECURSIVE JsonEscape(_)
JsonEscape(s) ==
    IF Len(s) = 0 THEN ""
    ELSE (IF Char(s, 1) \in {"\"", "\\"} THEN "\\" ELSE "") \o Char(s, 1)
         \o JsonEscape(SubSeq(s, 2, Len(s)))
JsonColumnBind(value) == "\"" \o JsonEscape(value) \o "\""

\* a str literal compared with a column is bound as a string, as it is
StringBind(value) == value

\* ThreatArticle.iocs != '[]'
IocsNotEmptyList(row) == JsonColumnBind(row.iocs) # StringBind("[]")

\* and_(*conditions) on one row
RowMatches(row, filters) ==
    /\ Truthy(filters.keywords) =>
          \E k \in 1..Len(filters.keywords) : KeywordCondition(row, filters.keywords[k])
    /\ Truthy(filters.threat_levels) =>
          \E k \in 1..Len(filters.threat_levels) : row.threat_level = filters.threat_levels[k]
    /\ Truthy(filters.sources) =>
          \E k \in 1..Len(filters.sources) : row.source_name = filters.sources[k]
    /\ filters.date_from # <<>> => row.published_date >= filters.date_from[1]
    /\ filters.date_to # <<>> => row.published_date <= filters.date_to[1]
    /\ filters.has_iocs # <<>> =>
          IF filters.has_iocs[1] THEN IocsNotEmptyList(row) ELSE ~IocsNotEmptyList(row)

\* the ids (positions in the table) of the rows of query.filter(...)
Matching(table, filters) == {i \in 1..Len(table) : RowMatches(table[i], filters)}

\* the ids in the order of insertion
OrderByInsertion(table, ids) ==
    {[k \in 1..Cardinality(ids) |->
         CHOOSE i \in ids : Cardinality({j \in ids : j < i}) = k - 1]}

\* order_by(desc(published_date)): every order of the ids that has the dates
\* descending; rows of one date come in any order
RECURSIVE OrderByDesc(_, _)
OrderByDesc(table, ids) ==
    IF ids = {} THEN {<<>>}
    ELSE LET latest == {i \in ids : \A j \in ids :
                            table[j].published_date <= table[i].published_date}
         IN  UNION {{<<i>> \o rest : rest \in OrderByDesc(table, ids \ {i})} : i \in latest}

\* offset(offset).limit(limit)
OffsetLimit(rows, offset, limit) ==
    SubSeq(rows, offset + 1, Min(Len(rows), offset + limit))

\* ThreatArticleResponse of the row with this id
ThreatArticleResponse(table, id) ==
    LET article == table[id]
    IN  [id |-> id, title |-> article.title, summary |-> article.summary,
         content |-> article.content, url |-> article.url,
         source_name |-> article.source_name,
         published_date |-> article.published_date,
         scraped_date |-> article.scraped_date,
         threat_level |-> article.threat_level,
         confidence_score |-> article.confidence_score,
         tags |-> JsonLoads(article.tags), iocs |-> JsonLoads(article.iocs),
         views |-> article.views, bookmarked |-> article.bookmarked]

\* pages = (total + per_page - 1) // per_page
PageCountFloor(total, per_page) == total \div per_page

PageCount(total, per_page) == (total + per_page - 1) \div per_page

\* search_articles: the responses the call can return (one for each order the
\* database can give to rows of one published_date)
search_articles(table, filters, page, per_page) ==
    LET ids == Matching(table, filters)
        total == Cardinality(ids)
        offset == (page - 1) * per_page
        pages == PageCount(total, per_page)
    IN  {[items |-> [k \in 1..Len(articles) |-> ThreatArticleResponse(table, articles[k])],
          total |-> total, page |-> page, per_page |-> per_page, pages |-> pages,
          has_next |-> page < pages, has_prev |-> page > 1] :
            articles \in {OffsetLimit(ordered, offset, per_page) :
                              ordered \in OrderByDesc(table, ids)}}

\* {key: count} of a group_by query: a key for each value that occurs
GroupCount(table, column) ==
    [v \in {table[i][column] : i \in 1..Len(table)} |->
        Cardinality({i \in 1..Len(table) : table[i][column] = v})]

\* get_statistics.  iocs.isnot(None) holds of every row: save_articles assigns
\* a json.dumps(...) to the iocs of each row it adds
get_statistics(table) ==
    [total_articles |-> Len(table),
     threat_distribution |-> GroupCount(table, "threat_level"),
     source_distribution |-> GroupCount(table, "source_name"),
     articles_with_iocs |->
         Cardinality({i \in 1..Len(table) : IocsNotEmptyList(table[i])}),
     last_updated |-> datetime_now]

-----------------------------------------------------------------------------
(* The analyzer on its own: POST /analyze and the callers in the scrapers *)

\* the tokens the analyzed contents are drawn from, and the analyzed titles
Vocab == {"RCE", "critical", " ", "vulnerability", "patch", "report", "ed"}
Titles == {<<>>, <<"RCE">>, <<"critical">>, <<"vulnerability">>, <<"patch", "ed">>}

AnInit ==
    /\ an_title \in Titles
    /\ an_content \in SeqsUpTo(Vocab, MaxContentLen)
    /\ an_result = <<>>

AnalyzeCall ==
    /\ an_result = <<>>
    /\ an_result' = <<analyze_threat_level(an_title, an_content)>>
    /\ UNCHANGED <<an_title, an_content>>

-----------------------------------------------------------------------------
(* ScraperManager.scrape_all_sources: the pass over the sources *)

\* the session of the background task
Task == "ingest"

\* hist: of the previous run, whether there was one (prev_ran), whether every
\* request and the storage engine worked (prev_clean), whether its write
\* committed (prev_committed) and the table it left (prev_store); whether a
\* source changed its content since (feed_changed); of the current run, the
\* sources requested so far and the table as save_articles found it; of the
\* last read of a client, the committed table at the read (read_store) and the
\* rows that sessions had added and not committed (read_pending)
NoHistory ==
    [prev_ran |-> FALSE, prev_clean |-> FALSE, prev_committed |-> FALSE,
     prev_store |-> <<>>, feed_changed |-> FALSE, requested |-> {},
     store_before |-> <<>>, read_store |-> <<>>, read_pending |-> {},
     request_log |-> <<>>]

CurrentSource == Sources[src_idx]

\* if not config.get("enabled", True): continue
SkipDisabledSource ==
    /\ run_pc = "scraping"
    /\ src_idx <= Len(Sources)
    /\ ~threat_sources[CurrentSource].enabled
    /\ src_idx' = src_idx + 1
    /\ UNCHANGED <<threat_articles, threat_sources, feed, run_pc, all_articles,
                   fetch_failed, sess, run_log, run_result, hist>>

\* what a failed request leaves of the pass: the scraper's except clauses
\* return [], which the pass extends its list with
FailedSourceAbortsPass(articles, source_name) ==
    [all_articles |-> <<>>, src_idx |-> Len(Sources) + 1]

FailedSourceRetriesOnce(articles, source_name) ==
    [all_articles |-> articles \o <<>>,
     src_idx |-> IF source_name \in fetch_failed THEN src_idx + 1 ELSE src_idx]

FailedSource(articles, source_name) ==
    [all_articles |-> articles \o <<>>, src_idx |-> src_idx + 1]

\* what the scraper of a source returns for each content the source can
\* serve (the scraper is a function of the response; it is computed once)
Scraped ==
    [type \in {"rss", "html"}, s \in SourceSet,
     c \in FeedContents \cup UNION {LongFeeds(t) : t \in SourceSet} |->
        IF type = "rss" THEN scrape_rss_feed(s, c)
        ELSE scrape_html_source(s, c, SourceUrl(s))]

\* what a successful request adds: all_articles.extend(articles)
FetchedSource(articles, source_name) ==
    LET c == threat_sources[source_name]
        got == Scraped[c.type, source_name, feed[source_name]]
    IN  articles \o got

\* the request succeeds: the source's articles are parsed and appended
ScrapeSourceOk ==
    /\ run_pc = "scraping"
    /\ src_idx <= Len(Sources)
    /\ threat_sources[CurrentSource].enabled
    /\ all_articles' = FetchedSource(all_articles, CurrentSource)
    /\ src_idx' = src_idx + 1
    /\ hist' = [hist EXCEPT !.requested = @ \cup {CurrentSource},
                            !.request_log = Append(@, CurrentSource)]
    /\ UNCHANGED <<threat_articles, threat_sources, feed, run_pc, fetch_failed, sess,
                   run_log, run_result>>

\* the request fails (network, timeout, HTTP status, unparseable body)
ScrapeSourceFail ==
    /\ run_pc = "scraping"
    /\ src_idx <= Len(Sources)
    /\ threat_sources[CurrentSource].enabled
    /\ LET r == FailedSource(all_articles, CurrentSource)
       IN  /\ all_articles' = r.all_articles
           /\ src_idx' = r.src_idx
    /\ fetch_failed' = fetch_failed \cup {CurrentSource}
    /\ hist' = [hist EXCEPT !.requested = @ \cup {CurrentSource},
                            !.request_log = Append(@, CurrentSource)]
    /\ UNCHANGED <<threat_articles, threat_sources, feed, run_pc, sess, run_log,
                   run_result>>

-----------------------------------------------------------------------------
(* scrape_all_sources: the background task *)

\* POST /scrape: background_tasks.add_task(scrape_all_sources), and the task starts
TriggerRun ==
    /\ run_pc = "idle"
    /\ run_pc' = "scraping"
    /\ src_idx' = 1
    /\ all_articles' = <<>>
    /\ UNCHANGED <<threat_articles, threat_sources, feed, fetch_failed, sess, run_log,
                   run_result, hist>>

\* the pass returns; if articles: save_articles(articles)
PassReturnsArticles ==
    /\ run_pc = "scraping"
    /\ src_idx > Len(Sources)
    /\ all_articles # <<>>
    /\ run_pc' = "saving"
    /\ sess' = [sess EXCEPT ![Task] = SaveCalled(all_articles)]
    /\ hist' = [hist EXCEPT !.store_before = threat_articles]
    /\ UNCHANGED <<threat_articles, threat_sources, feed, src_idx, all_articles,
                   fetch_failed, run_log, run_result>>

\* else: "No articles found during scraping"
PassReturnsNothing ==
    /\ run_pc = "scraping"
    /\ src_idx > Len(Sources)
    /\ all_articles = <<>>
    /\ run_pc' = "done"
    /\ run_log' = <<[level |-> "warning", event |-> "no_articles"]>>
    /\ run_result' = <<[raised |-> FALSE, value |-> ReturnNone]>>
    /\ UNCHANGED <<threat_articles, threat_sources, feed, src_idx, all_articles,
                   fetch_failed, sess, hist>>

\* save_articles returned saved_count: it is logged, and the task returns None
TaskAfterSave(saved_count) ==
    [log |-> [level |-> "info", event |-> "completed", found |-> Len(all_articles),
              saved |-> saved_count],
     result |-> [raised |-> FALSE, value |-> ReturnNone]]

SaveReturned ==
    /\ run_pc = "saving"
    /\ sess[Task].pc = "returned"
    /\ LET r == TaskAfterSave(sess[Task].saved_count)
       IN  /\ run_log' = <<r.log>>
           /\ run_result' = <<r.result>>
    /\ run_pc' = "done"
    /\ UNCHANGED <<threat_articles, threat_sources, feed, src_idx, all_articles,
                   fetch_failed, sess, hist>>

\* save_articles raised: except Exception: the error is logged, and the task
\* returns None
TaskExceptLogsSuccess(e) ==
    [log |-> [level |-> "info", event |-> "completed", found |-> Len(all_articles),
              saved |-> 0],
     result |-> [raised |-> FALSE, value |-> ReturnNone]]

TaskExcept(e) ==
    [log |-> [level |-> "error", event |-> "error"],
     result |-> [raised |-> FALSE, value |-> ReturnNone]]

SaveRaised ==
    /\ run_pc = "saving"
    /\ sess[Task].pc = "raised"
    /\ LET r == TaskExcept("error")
       IN  /\ run_log' = <<r.log>>
           /\ run_result' = <<r.result>>
    /\ run_pc' = "done"
    /\ UNCHANGED <<threat_articles, threat_sources, feed, src_idx, all_articles,
                   fetch_failed, sess, hist>>

\* the task is over and its locals are gone; the next POST /scrape starts the
\* next one
RunEnd ==
    /\ run_pc = "done"
    /\ run_pc' = "idle"
    /\ hist' = [prev_ran |-> TRUE,
                prev_clean |-> fetch_failed = {} /\ ~sess[Task].fault,
                prev_committed |-> sess[Task].pc = "returned",
                prev_store |-> threat_articles,
                feed_changed |-> FALSE,
                requested |-> {},
                store_before |-> <<>>,
                read_store |-> hist.read_store,
                read_pending |-> hist.read_pending,
                request_log |-> <<>>]
    /\ sess' = [sess EXCEPT ![Task] = IdleSession]
    /\ src_idx' = 0
    /\ all_articles' = <<>>
    /\ fetch_failed' = {}
    /\ run_log' = <<>>
    /\ run_result' = <<>>
    /\ UNCHANGED <<threat_articles, threat_sources, feed>>

\* the environment: a source publishes other content between two runs
UpdateFeed ==
    /\ run_pc = "idle"
    /\ \E s \in SourceSet, c \in FeedContents :
          /\ c # feed[s]
          /\ feed' = [feed EXCEPT ![s] = c]
    /\ hist' = [hist EXCEPT !.feed_changed = TRUE]
    /\ UNCHANGED <<threat_articles, threat_sources, run_pc, src_idx, all_articles,
                   fetch_failed, sess, run_log, run_result>>

-----------------------------------------------------------------------------
(* The ingestion pipeline: one server process, runs one after the other *)

Init ==
    /\ threat_articles = <<>>
    /\ threat_sources \in Configs
    /\ feed \in [SourceSet -> FeedContents]
    /\ run_pc = "idle"
    /\ src_idx = 0
    /\ all_articles = <<>>
    /\ fetch_failed = {}
    /\ sess = [w \in {Task} |-> IdleSession]
    /\ run_log = <<>>
    /\ run_result = <<>>
    /\ hist = NoHistory
    /\ an_title = <<>>
    /\ an_content = <<>>
    /\ an_result = <<>>
    /\ ApiIdle

Next ==
    \/ (TriggerRun /\ UNCHANGED <<anVars, apiVars>>)
    \/ (SkipDisabledSource /\ UNCHANGED <<anVars, apiVars>>)
    \/ (ScrapeSourceOk /\ UNCHANGED <<anVars, apiVars>>)
    \/ (ScrapeSourceFail /\ UNCHANGED <<anVars, apiVars>>)
    \/ (PassReturnsArticles /\ UNCHANGED <<anVars, apiVars>>)
    \/ (PassReturnsNothing /\ UNCHANGED <<anVars, apiVars>>)
    \/ (SaveRecord(Task) /\ run_pc = "saving"
          /\ UNCHANGED <<threat_sources, feed, run_pc, src_idx, all_articles,
                         fetch_failed, run_log, run_result, hist>>
          /\ UNCHANGED <<anVars, apiVars>>)
    \/ (SaveCommit(Task) /\ run_pc = "saving"
          /\ UNCHANGED <<threat_sources, feed, run_pc, src_idx, all_articles,
                         fetch_failed, run_log, run_result, hist>>
          /\ UNCHANGED <<anVars, apiVars>>)
    \/ (SaveFault(Task) /\ run_pc = "saving"
          /\ UNCHANGED <<threat_sources, feed, run_pc, src_idx, all_articles,
                         fetch_failed, run_log, run_result, hist>>
          /\ UNCHANGED <<anVars, apiVars>>)
    \/ (SaveReturned /\ UNCHANGED <<anVars, apiVars>>)
    \/ (SaveRaised /\ UNCHANGED <<anVars, apiVars>>)
    \/ (RunEnd /\ UNCHANGED <<anVars, apiVars>>)
    \/ (UpdateFeed /\ UNCHANGED <<anVars, apiVars>>)

Spec == Init /\ [][Next]_vars

-----------------------------------------------------------------------------
(* The analyzer alone *)

AnalyzeInit ==
    /\ AnInit
    /\ threat_articles = <<>>
    /\ threat_sources = ShippedSources
    /\ feed = [s \in SourceSet |-> <<>>]
    /\ run_pc = "idle"
    /\ src_idx = 0
    /\ all_articles = <<>>
    /\ fetch_failed = {}
    /\ sess = [w \in {Task} |-> IdleSession]
    /\ run_log = <<>>
    /\ run_result = <<>>
    /\ hist = NoHistory
    /\ ApiIdle

AnalyzeNext == AnalyzeCall /\ UNCHANGED <<pipeVars, apiVars>>

AnalyzeSpec == AnalyzeInit /\ [][AnalyzeNext]_vars

-----------------------------------------------------------------------------
(* POST /analyze *)

\* the tokens the posted texts are made of; a token with dots, dashes or an @
\* inside begins and ends with a word character and contains no threat keyword
MD5Token == "0123456789abcdef0123456789ABCDEF"
TextVocab ==
    {"8.8.8.8", "999.999.999.999", "255.0.0.256", " ", "example.com",
     "CVE-2024-1234", "a@b.io", MD5Token}

\* analyze_text: the whole handler
analyze_text_of(Requests) ==
    /\ ex_response = <<>>
    /\ \E request \in Requests :
          LET text == TextOf(request)
              a == analyze_threat_level(<<>>, request)
          IN  /\ ex_text' = text
              /\ \E iocs \in extract_iocs(text) :
                    ex_response' = << [threat_level |-> a.level,
                                       confidence_score |-> a.confidence,
                                       iocs |-> iocs,
                                       tags |-> extract_tags("", text)] >>
    /\ UNCHANGED <<q_request, q_response, stats_response>>

\* the response has been sent
analyze_text == analyze_text_of(SeqsUpTo(TextVocab, MaxTextLen))

AnalyzeDone ==
    /\ ex_response # <<>>
    /\ ex_text' = <<>>
    /\ ex_response' = <<>>
    /\ UNCHANGED <<q_request, q_response, stats_response>>

ExtractInit ==
    /\ threat_articles = <<>>
    /\ threat_sources = ShippedSources
    /\ feed = [s \in SourceSet |-> <<>>]
    /\ run_pc = "idle"
    /\ src_idx = 0
    /\ all_articles = <<>>
    /\ fetch_failed = {}
    /\ sess = [w \in {Task} |-> IdleSession]
    /\ run_log = <<>>
    /\ run_result = <<>>
    /\ hist = NoHistory
    /\ an_title = <<>>
    /\ an_content = <<>>
    /\ an_result = <<>>
    /\ ApiIdle

ExtractNext ==
    \/ (analyze_text /\ UNCHANGED <<pipeVars, anVars>>)
    \/ (AnalyzeDone /\ UNCHANGED <<pipeVars, anVars>>)

ExtractSpec == ExtractInit /\ [][ExtractNext]_vars

-----------------------------------------------------------------------------
(* The queries alone: POST /search, GET /articles and GET /stats over a *)
(* table that save_articles has filled                                   *)

\* the defaults and limits of the page and per_page parameters
DefaultPerPage == 20
MaxPerPage == 100
PerPages == {1, DefaultPerPage, MaxPerPage}

\* the dicts the small tables were saved from: a critical article, a medium
\* one whose title holds "ransomware" inside a longer word, a high one with an
\* indicator, and a low one of the same date
QueryDicts ==
    << ArticleDict(<<"Ransomware", " ", "RCE">>, <<"report">>,
                   <<"https://news.example", "/1">>, "security_affairs", 4),
       ArticleDict(<<"anti", "ransomware", " ", "patch">>, <<>>,
                   <<"https://news.example", "/2">>, "bleeping_computer", 3),
       ArticleDict(<<"vulnerability">>, <<"8.8.8.8">>,
                   <<"https://news.example", "/3">>, "security_affairs", 2),
       ArticleDict(<<"report">>, <<>>,
                   <<"https://news.example", "/4">>, "bleeping_computer", 2) >>

\* the dicts of the large table: one article for each date
BulkDict(i) ==
    ArticleDict(IF i % 2 = 1 THEN <<"patch">> ELSE <<"report">>, <<>>,
                <<"https://bulk.example", "/" \o ToString(i)>>,
                IF i % 3 = 0 THEN "security_affairs" ELSE "bleeping_computer", i)

\* the table after save_articles(dicts) on an empty table
SavedTable(dicts) ==
    Flush(<<>>, Stamp([k \in 1..Len(dicts) |-> NewRow(dicts[k])], datetime_now)).table

QueryTables ==
    {SavedTable(SubSeq(QueryDicts, 1, n)) : n \in {0, 1, Len(QueryDicts)}}
        \cup {SavedTable([i \in 1..BulkRows |-> BulkDict(i)])}

\* the filters of the requests
FilterSet ==
    {SearchFilters(keywords, threat_levels, sources, date_from, date_to, has_iocs) :
        keywords \in {None, <<"ransomware">>, <<"RANSOM", "report">>, <<"_">>},
        threat_levels \in {None, <<"high", "critical">>, <<"medium">>},
        sources \in {None, <<"security_affairs">>},
        date_from \in {<<>>, <<2>>},
        date_to \in {<<>>, <<3>>},
        has_iocs \in {<<>>, <<TRUE>>, <<FALSE>>}}

\* return await db_manager.search_articles(filters, page, per_page)
Respond(filters, page, per_page) ==
    \E response \in search_articles(ReadCommitted(threat_articles, sess),
                                    filters, page, per_page) :
        /\ q_request' = Append(q_request, [filters |-> filters, page |-> page,
                                           per_page |-> per_page])
        /\ q_response' = Append(q_response, response)
        /\ UNCHANGED <<ex_text, ex_response, stats_response>>

\* POST /search: the whole handler
post_search(Filters, Pages, Sizes) ==
    /\ q_request = <<>>
    /\ \E filters \in Filters, page \in Pages, per_page \in Sizes :
          Respond(filters, page, per_page)

\* POST /search again, by a client that asks for the page after the one it got
post_search_next ==
    /\ q_request # <<>>
    /\ Len(q_request) < MaxPage
    /\ q_response[Len(q_response)].has_next
    /\ LET last == q_request[Len(q_request)]
       IN  Respond(last.filters, last.page + 1, last.per_page)

\* GET /articles: the whole handler; threat_level and source are <<>> when the
\* request has no such parameter
get_articles ==
    /\ q_request = <<>>
    /\ \E page \in 1..MaxPage, per_page \in PerPages,
          threat_level \in {<<>>, <<"">>, <<"medium">>},
          source \in {<<>>, <<"">>, <<"security_affairs">>} :
          Respond(SearchFilters(None,
                                IF threat_level # <<>> /\ threat_level[1] # ""
                                THEN threat_level ELSE None,
                                IF source # <<>> /\ source[1] # "" THEN source ELSE None,
                                <<>>, <<>>, <<>>),
                  page, per_page)

\* the client has its pages
QueryDone ==
    /\ q_request # <<>>
    /\ q_request' = <<>>
    /\ q_response' = <<>>
    /\ UNCHANGED <<ex_text, ex_response, stats_response>>

\* GET /stats: the whole handler
get_stats ==
    /\ stats_response = <<>>
    /\ stats_response' = <<get_statistics(ReadCommitted(threat_articles, sess))>>
    /\ UNCHANGED <<ex_text, ex_response, q_request, q_response>>

StatsDone ==
    /\ stats_response # <<>>
    /\ stats_response' = <<>>
    /\ UNCHANGED <<ex_text, ex_response, q_request, q_response>>

QueryInit ==
    /\ threat_articles \in QueryTables
    /\ threat_sources = ShippedSources
    /\ feed = [s \in SourceSet |-> <<>>]
    /\ run_pc = "idle"
    /\ src_idx = 0
    /\ all_articles = <<>>
    /\ fetch_failed = {}
    /\ sess = [w \in {Task} |-> IdleSession]
    /\ run_log = <<>>
    /\ run_result = <<>>
    /\ hist = NoHistory
    /\ an_title = <<>>
    /\ an_content = <<>>
    /\ an_result = <<>>
    /\ ApiIdle

QueryNext ==
    \/ (post_search(FilterSet, 1..MaxPage, PerPages) /\ UNCHANGED <<pipeVars, anVars>>)
    \/ (post_search_next /\ UNCHANGED <<pipeVars, anVars>>)
    \/ (get_articles /\ UNCHANGED <<pipeVars, anVars>>)
    \/ (QueryDone /\ UNCHANGED <<pipeVars, anVars>>)
    \/ (get_stats /\ UNCHANGED <<pipeVars, anVars>>)
    \/ (StatsDone /\ UNCHANGED <<pipeVars, anVars>>)

QuerySpec == QueryInit /\ [][QueryNext]_vars

\* searches whose list filters are missing, empty, or hold one value
ListFilterSet ==
    {SearchFilters(keywords, threat_levels, sources, <<>>, date_to, <<>>) :
        keywords \in {None, <<>>, <<"ransomware">>},
        threat_levels \in {None, <<>>, <<"critical">>},
        sources \in {None, <<>>, <<"security_affairs">>},
        date_to \in {<<>>, <<3>>}}

ListFilterNext ==
    \/ (post_search(ListFilterSet, {1}, {1, DefaultPerPage}) /\ UNCHANGED <<pipeVars, anVars>>)
    \/ (QueryDone /\ UNCHANGED <<pipeVars, anVars>>)

ListFilterSpec == QueryInit /\ [][ListFilterNext]_vars

-----------------------------------------------------------------------------
(* The store alone: save_articles called by several writers at once (server *)
(* processes sharing the database file), each with its own session          *)

Writers == {"w1", "w2"}

\* the dicts the callers' batches are made of; a url of None is a dict that
\* carries no usable link
DirectDicts ==
    {ArticleDict(<<"patch">>, <<>>, <<"https://news.example", "/1">>, "security_affairs", 2),
     ArticleDict(<<"rce">>, <<>>, <<"https://news.example", "/1">>, "bleeping_computer", 1),
     ArticleDict(<<"report">>, <<>>, None, "security_affairs", 3)}

SaveCall(w) ==
    /\ sess[w].pc = "idle"
    /\ \E batch \in SeqsUpTo(DirectDicts, MaxBatch) :
          sess' = [sess EXCEPT ![w] = SaveCalled(batch)]
    /\ UNCHANGED threat_articles

\* the call is over: its result or its exception is the caller's
SaveEnd(w) ==
    /\ sess[w].pc \in {"returned", "raised"}
    /\ sess' = [sess EXCEPT ![w] = IdleSession]
    /\ UNCHANGED threat_articles

StoreInit ==
    /\ threat_articles = <<>>
    /\ threat_sources = ShippedSources
    /\ feed = [s \in SourceSet |-> <<>>]
    /\ run_pc = "idle"
    /\ src_idx = 0
    /\ all_articles = <<>>
    /\ fetch_failed = {}
    /\ sess = [w \in Writers |-> IdleSession]
    /\ run_log = <<>>
    /\ run_result = <<>>
    /\ hist = NoHistory
    /\ an_title = <<>>
    /\ an_content = <<>>
    /\ an_result = <<>>
    /\ ApiIdle

StoreFrame ==
    UNCHANGED <<threat_sources, feed, run_pc, src_idx, all_articles, fetch_failed,
                run_log, run_result, hist, an_title, an_content, an_result,
                ex_text, ex_response, q_request, q_response, stats_response>>

StoreNext ==
    \/ \E w \in Writers : SaveCall(w) /\ StoreFrame
    \/ \E w \in Writers : SaveRecord(w) /\ StoreFrame
    \/ \E w \in Writers : SaveCommit(w) /\ StoreFrame
    \/ \E w \in Writers : SaveFault(w) /\ StoreFrame
    \/ \E w \in Writers : SaveEnd(w) /\ StoreFrame

StoreSpec == StoreInit /\ [][StoreNext]_vars

-----------------------------------------------------------------------------
(* The store with a reader: a client of another server process on the same *)
(* database file searches and asks for the statistics while save_articles  *)
(* writes its batches                                                      *)

NoFilters == SearchFilters(None, None, None, <<>>, <<>>, <<>>)

\* the rows that sessions have added and not committed: of the calls in their
\* loop or in their commit, and of the calls that rolled back
Uncommitted(sessions) ==
    UNION {SeqRange(sessions[w].pending) :
               w \in {x \in DOMAIN sessions : sessions[x].pc \in {"loop", "raised"}}}

\* the read is recorded in the history
ReadRecorded ==
    hist' = [hist EXCEPT !.read_store = threat_articles,
                         !.read_pending = Uncommitted(sess)]

ReadFrame ==
    UNCHANGED <<threat_articles, threat_sources, feed, run_pc, src_idx, all_articles,
                fetch_failed, sess, run_log, run_result, an_title, an_content, an_result>>

\* the table holds nothing, or one article of an earlier batch
ReadInit ==
    /\ threat_articles \in {<<>>, SavedTable(SubSeq(QueryDicts, 3, 3))}
    /\ threat_sources = ShippedSources
    /\ feed = [s \in SourceSet |-> <<>>]
    /\ run_pc = "idle"
    /\ src_idx = 0
    /\ all_articles = <<>>
    /\ fetch_failed = {}
    /\ sess = [w \in {Task} |-> IdleSession]
    /\ run_log = <<>>
    /\ run_result = <<>>
    /\ hist = NoHistory
    /\ an_title = <<>>
    /\ an_content = <<>>
    /\ an_result = <<>>
    /\ ApiIdle

ReadNext ==
    \/ (SaveCall(Task) /\ StoreFrame)
    \/ (SaveRecord(Task) /\ StoreFrame)
    \/ (SaveCommit(Task) /\ StoreFrame)
    \/ (SaveFault(Task) /\ StoreFrame)
    \/ (SaveEnd(Task) /\ StoreFrame)
    \/ (stats_response = <<>> /\ post_search({NoFilters}, {1}, {DefaultPerPage})
            /\ ReadRecorded /\ ReadFrame)
    \/ (QueryDone /\ UNCHANGED <<pipeVars, anVars>>)
    \/ (q_request = <<>> /\ get_stats /\ ReadRecorded /\ ReadFrame)
    \/ (StatsDone /\ UNCHANGED <<pipeVars, anVars>>)

ReadSpec == ReadInit /\ [][ReadNext]_vars

-----------------------------------------------------------------------------
(* get_statistics statement by statement.  The session of the call emits no
   BEGIN for its SELECTs, so each of the four queries reads the table as
   committed at its own time; a batch of another process on the same database
   file can commit between two of them.                                      *)

NoStatistics ==
    [total_articles |-> 0, threat_distribution |-> <<>>, source_distribution |-> <<>>,
     articles_with_iocs |-> 0, last_updated |-> 0]

\* session = self.get_session()
stats_call ==
    /\ q_request = <<>>
    /\ stats_response = <<>>
    /\ q_request' = <<[path |-> "/stats", at |-> "total_articles", locals |-> NoStatistics]>>
    /\ UNCHANGED <<ex_text, ex_response, q_response, stats_response>>

\* one of the four queries: the local gets what the query finds now
StatsQuery(local, then) ==
    /\ q_request # <<>>
    /\ q_request[1].at = local
    /\ q_request' =
          <<[q_request[1] EXCEPT
                !.at = then,
                !.locals[local] =
                    get_statistics(ReadCommitted(threat_articles, sess))[local]]>>
    /\ UNCHANGED <<ex_text, ex_response, q_response, stats_response>>

\* return {...}; finally: session.close()
stats_return ==
    /\ q_request # <<>>
    /\ q_request[1].at = "return"
    /\ stats_response' = <<[q_request[1].locals EXCEPT !.last_updated = datetime_now]>>
    /\ q_request' = <<>>
    /\ UNCHANGED <<ex_text, ex_response, q_response>>

StatsNext ==
    \/ (SaveCall(Task) /\ StoreFrame)
    \/ (SaveRecord(Task) /\ StoreFrame)
    \/ (SaveCommit(Task) /\ StoreFrame)
    \/ (SaveFault(Task) /\ StoreFrame)
    \/ (SaveEnd(Task) /\ StoreFrame)
    \/ (stats_call /\ UNCHANGED <<pipeVars, anVars>>)
    \/ (StatsQuery("total_articles", "threat_distribution") /\ UNCHANGED <<pipeVars, anVars>>)
    \/ (StatsQuery("threat_distribution", "source_distribution")
            /\ UNCHANGED <<pipeVars, anVars>>)
    \/ (StatsQuery("source_distribution", "articles_with_iocs")
            /\ UNCHANGED <<pipeVars, anVars>>)
    \/ (StatsQuery("articles_with_iocs", "return") /\ UNCHANGED <<pipeVars, anVars>>)
    \/ (stats_return /\ UNCHANGED <<pipeVars, anVars>>)
    \/ (StatsDone /\ UNCHANGED <<pipeVars, anVars>>)

StatsSpec == ReadInit /\ [][StatsNext]_vars

-----------------------------------------------------------------------------
(* The server process: the ingestion run and the requests of the clients on *)
(* one event loop                                                           *)

\* the event loop runs one coroutine at a time.  The background task is a
\* coroutine of the loop; what it awaits (scrape_all_sources, scrape_rss_feed,
\* save_articles) are coroutines that never suspend: they block in
\* time.sleep, in requests and in the database calls.  So the task keeps the
\* loop from its first statement to its last.
RunInProgress == run_pc \in {"scraping", "saving"}
LoopFree == ~RunInProgress

\* a request has reached the socket of the server and has no response yet
RequestWaiting == q_request # <<>> /\ q_response = <<>> /\ stats_response = <<>>

\* a client sends GET /articles or GET /stats
RequestArrives ==
    /\ q_request = <<>>
    /\ \E path \in {"/articles", "/stats"} : q_request' = <<[path |-> path]>>
    /\ UNCHANGED <<ex_text, ex_response, q_response, stats_response>>

\* the loop runs get_articles for the waiting request: the whole handler
ServeArticles ==
    /\ LoopFree
    /\ RequestWaiting
    /\ q_request[1].path = "/articles"
    /\ \E response \in search_articles(ReadCommitted(threat_articles, sess),
                                        NoFilters, 1, DefaultPerPage) :
          q_response' = <<response>>
    /\ UNCHANGED <<ex_text, ex_response, q_request, stats_response>>

\* the loop runs get_stats for the waiting request: the whole handler
ServeStats ==
    /\ LoopFree
    /\ RequestWaiting
    /\ q_request[1].path = "/stats"
    /\ stats_response' = <<get_statistics(ReadCommitted(threat_articles, sess))>>
    /\ UNCHANGED <<ex_text, ex_response, q_request, q_response>>

\* the client has its response
ResponseSent ==
    /\ q_request # <<>>
    /\ ~RequestWaiting
    /\ q_request' = <<>>
    /\ q_response' = <<>>
    /\ stats_response' = <<>>
    /\ UNCHANGED <<ex_text, ex_response>>

ServeNext ==
    \/ Next
    \/ (RequestArrives /\ UNCHANGED <<pipeVars, anVars>>)
    \/ (ServeArticles /\ UNCHANGED <<pipeVars, anVars>>)
    \/ (ServeStats /\ UNCHANGED <<pipeVars, anVars>>)
    \/ (ResponseSent /\ UNCHANGED <<pipeVars, anVars>>)

ServeSpec == Init /\ [][ServeNext]_vars

-----------------------------------------------------------------------------
(* POST /scrape: the trigger, its response and the background task *)

\* return {"message": "Scraping initiated", "status": "success"}
ScrapeAck == [message |-> "Scraping initiated", status |-> "success"]

\* a client sends POST /scrape
ScrapeRequested ==
    /\ run_pc = "idle"
    /\ q_request = <<>>
    /\ q_request' = <<[path |-> "/scrape"]>>
    /\ UNCHANGED <<ex_text, ex_response, q_response, stats_response>>
    /\ UNCHANGED <<pipeVars, anVars>>

\* trigger_scrape: the whole handler.  add_task puts the task on the
\* response; the handler returns the acknowledgement, not yet sent
trigger_scrape ==
    /\ run_pc = "idle"
    /\ q_request = <<[path |-> "/scrape"]>>
    /\ q_response = <<>>
    /\ run_pc' = "queued"
    /\ q_response' = <<[body |-> ScrapeAck, sent |-> FALSE]>>
    /\ UNCHANGED <<threat_articles, threat_sources, feed, src_idx, all_articles,
                   fetch_failed, sess, run_log, run_result, hist>>
    /\ UNCHANGED <<ex_text, ex_response, q_request, stats_response, anVars>>

\* the server sends the response of the handler to the client
SendScrapeResponse ==
    /\ q_response # <<>>
    /\ ~q_response[1].sent
    /\ q_response' = <<[q_response[1] EXCEPT !.sent = TRUE]>>
    /\ UNCHANGED <<ex_text, ex_response, q_request, stats_response>>
    /\ UNCHANGED <<pipeVars, anVars>>

\* BackgroundTasks: the tasks of a response run once the response is sent
BackgroundRunsAtOnce(pc, response) == pc = "queued"

BackgroundRuns(pc, response) ==
    pc = "queued" /\ response # <<>> /\ response[1].sent

\* the background task starts: scrape_all_sources() is awaited
TaskStarts ==
    /\ BackgroundRuns(run_pc, q_response)
    /\ run_pc' = "scraping"
    /\ src_idx' = 1
    /\ all_articles' = <<>>
    /\ UNCHANGED <<threat_articles, threat_sources, feed, fetch_failed, sess, run_log,
                   run_result, hist>>
    /\ UNCHANGED <<anVars, apiVars>>

\* the client has its acknowledgement and the task is over
ScrapeClientDone ==
    /\ run_pc = "idle"
    /\ q_response # <<>>
    /\ q_request' = <<>>
    /\ q_response' = <<>>
    /\ UNCHANGED <<ex_text, ex_response, stats_response>>
    /\ UNCHANGED <<pipeVars, anVars>>

TriggerNext ==
    \/ ScrapeRequested
    \/ trigger_scrape
    \/ SendScrapeResponse
    \/ TaskStarts
    \/ ScrapeClientDone
    \/ (SkipDisabledSource /\ UNCHANGED <<anVars, apiVars>>)
    \/ (ScrapeSourceOk /\ UNCHANGED <<anVars, apiVars>>)
    \/ (ScrapeSourceFail /\ UNCHANGED <<anVars, apiVars>>)
    \/ (PassReturnsArticles /\ UNCHANGED <<anVars, apiVars>>)
    \/ (PassReturnsNothing /\ UNCHANGED <<anVars, apiVars>>)
    \/ (SaveRecord(Task) /\ run_pc = "saving"
          /\ UNCHANGED <<threat_sources, feed, run_pc, src_idx, all_articles,
                         fetch_failed, run_log, run_result, hist>>
          /\ UNCHANGED <<anVars, apiVars>>)
    \/ (SaveCommit(Task) /\ run_pc = "saving"
          /\ UNCHANGED <<threat_sources, feed, run_pc, src_idx, all_articles,
                         fetch_failed, run_log, run_result, hist>>
          /\ UNCHANGED <<anVars, apiVars>>)
    \/ (SaveFault(Task) /\ run_pc = "saving"
          /\ UNCHANGED <<threat_sources, feed, run_pc, src_idx, all_articles,
                         fetch_failed, run_log, run_result, hist>>
          /\ UNCHANGED <<anVars, apiVars>>)
    \/ (SaveReturned /\ UNCHANGED <<anVars, apiVars>>)
    \/ (SaveRaised /\ UNCHANGED <<anVars, apiVars>>)
    \/ (RunEnd /\ UNCHANGED <<anVars, apiVars>>)

TriggerSpec == Init /\ [][TriggerNext]_vars

-----------------------------------------------------------------------------
(* One run over sources that serve more entries than a run takes *)

CapConfigs ==
    Configs \cup {[ShippedSources EXCEPT ![Sources[Len(Sources)]].type = "html"]}

CapInit ==
    /\ threat_articles = <<>>
    /\ threat_sources \in CapConfigs
    /\ feed \in {f \in [SourceSet -> UNION {LongFeeds(t) : t \in SourceSet}] :
                    \A t \in SourceSet : f[t] \in LongFeeds(t)}
    /\ run_pc = "idle"
    /\ src_idx = 0
    /\ all_articles = <<>>
    /\ fetch_failed = {}
    /\ sess = [w \in {Task} |-> IdleSession]
    /\ run_log = <<>>
    /\ run_result = <<>>
    /\ hist = NoHistory
    /\ an_title = <<>>
    /\ an_content = <<>>
    /\ an_result = <<>>
    /\ ApiIdle

CapNext ==
    \/ (TriggerRun /\ UNCHANGED <<anVars, apiVars>>)
    \/ (SkipDisabledSource /\ UNCHANGED <<anVars, apiVars>>)
    \/ (ScrapeSourceOk /\ UNCHANGED <<anVars, apiVars>>)
    \/ (ScrapeSourceFail /\ UNCHANGED <<anVars, apiVars>>)
    \/ (PassReturnsArticles /\ UNCHANGED <<anVars, apiVars>>)
    \/ (PassReturnsNothing /\ UNCHANGED <<anVars, apiVars>>)
    \/ (SaveRecord(Task) /\ run_pc = "saving"
          /\ UNCHANGED <<threat_sources, feed, run_pc, src_idx, all_articles,
                         fetch_failed, run_log, run_result, hist>>
          /\ UNCHANGED <<anVars, apiVars>>)
    \/ (SaveCommit(Task) /\ run_pc = "saving"
          /\ UNCHANGED <<threat_sources, feed, run_pc, src_idx, all_articles,
                         fetch_failed, run_log, run_result, hist>>
          /\ UNCHANGED <<anVars, apiVars>>)
    \/ (SaveFault(Task) /\ run_pc = "saving"
          /\ UNCHANGED <<threat_sources, feed, run_pc, src_idx, all_articles,
                         fetch_failed, run_log, run_result, hist>>
          /\ UNCHANGED <<anVars, apiVars>>)
    \/ (SaveReturned /\ UNCHANGED <<anVars, apiVars>>)
    \/ (SaveRaised /\ UNCHANGED <<anVars, apiVars>>)

CapSpec == CapInit /\ [][CapNext]_vars

-----------------------------------------------------------------------------
(* Several POST /scrape on one server process.  The runs are tasks of one
   event loop: the requests wait at the socket until the loop takes them, and
   a task keeps the loop until it awaits something that suspends.  A run
   awaits only coroutines that block (time.sleep, requests, the database
   calls), so it keeps the loop from its start to its end.  A run is here its
   fetch as one step and its save_articles call statement by statement.      *)

MaxTriggers == 2

\* a client sends POST /scrape; the request waits for the loop
TriggerArrives ==
    /\ Len(q_request) < MaxTriggers
    /\ q_request' = Append(q_request, [path |-> "/scrape"])
    /\ UNCHANGED <<ex_text, ex_response, q_response, stats_response>>
    /\ UNCHANGED <<pipeVars, anVars>>

\* does the task of this session keep the loop
HoldsLoopNever(s) == FALSE

HoldsLoop(s) == s.pc # "idle"

LoopFreeFor(w) == \A v \in Writers \ {w} : ~HoldsLoop(sess[v])

\* the loop takes a waiting request: trigger_scrape answers and its task starts
RunStarts(w) ==
    /\ LoopFreeFor(w)
    /\ sess[w].pc = "idle"
    /\ q_request # <<>>
    /\ q_request' = Tail(q_request)
    /\ sess' = [sess EXCEPT ![w].pc = "fetching"]
    /\ UNCHANGED <<threat_articles, threat_sources, feed, run_pc, src_idx, all_articles,
                   fetch_failed, run_log, run_result, hist, an_title, an_content,
                   an_result, ex_text, ex_response, q_response, stats_response>>

\* articles = await scraper_manager.scrape_all_sources(); if articles:
\* save_articles(articles), else the task is over
RunFetched(w) ==
    /\ LoopFreeFor(w)
    /\ sess[w].pc = "fetching"
    /\ \E articles \in SeqsUpTo(DirectDicts, MaxBatch) :
          sess' = [sess EXCEPT ![w] = IF articles # <<>> THEN SaveCalled(articles)
                                      ELSE IdleSession]
    /\ UNCHANGED threat_articles
    /\ StoreFrame

LoopNext ==
    \/ TriggerArrives
    \/ \E w \in Writers : RunStarts(w)
    \/ \E w \in Writers : RunFetched(w)
    \/ \E w \in Writers : LoopFreeFor(w) /\ SaveRecord(w) /\ StoreFrame
    \/ \E w \in Writers : LoopFreeFor(w) /\ SaveCommit(w) /\ StoreFrame
    \/ \E w \in Writers : LoopFreeFor(w) /\ SaveFault(w) /\ StoreFrame
    \/ \E w \in Writers : LoopFreeFor(w) /\ SaveEnd(w) /\ StoreFrame

LoopSpec == StoreInit /\ [][LoopNext]_vars

-----------------------------------------------------------------------------
(* The pipeline with its scheduling.  session.get is called with
   timeout=REQUEST_TIMEOUT, so a request that is under way returns or raises;
   the other steps of the task are statements of a coroutine that keeps the
   event loop, so a step that can be taken is taken.                         *)

\* a request that never ends
RequestHangs == run_pc = "scraping" /\ UNCHANGED vars

\* the request of the current source returns or raises
RequestEnds ==
    \/ (ScrapeSourceOk /\ UNCHANGED <<anVars, apiVars>>)
    \/ (ScrapeSourceFail /\ UNCHANGED <<anVars, apiVars>>)

\* the statements of the task between and after the requests
TaskStep ==
    \/ (SkipDisabledSource /\ UNCHANGED <<anVars, apiVars>>)
    \/ (PassReturnsArticles /\ UNCHANGED <<anVars, apiVars>>)
    \/ (PassReturnsNothing /\ UNCHANGED <<anVars, apiVars>>)
    \/ (SaveRecord(Task) /\ run_pc = "saving"
          /\ UNCHANGED <<threat_sources, feed, run_pc, src_idx, all_articles,
                         fetch_failed, run_log, run_result, hist>>
          /\ UNCHANGED <<anVars, apiVars>>)
    \/ (SaveCommit(Task) /\ run_pc = "saving"
          /\ UNCHANGED <<threat_sources, feed, run_pc, src_idx, all_articles,
                         fetch_failed, run_log, run_result, hist>>
          /\ UNCHANGED <<anVars, apiVars>>)
    \/ (SaveFault(Task) /\ run_pc = "saving"
          /\ UNCHANGED <<threat_sources, feed, run_pc, src_idx, all_articles,
                         fetch_failed, run_log, run_result, hist>>
          /\ UNCHANGED <<anVars, apiVars>>)
    \/ (SaveReturned /\ UNCHANGED <<anVars, apiVars>>)
    \/ (SaveRaised /\ UNCHANGED <<anVars, apiVars>>)

\* the runs of the pipeline, one after the other, over what the sources serve
RunStep ==
    \/ (TriggerRun /\ UNCHANGED <<anVars, apiVars>>)
    \/ RequestEnds
    \/ TaskStep
    \/ (RunEnd /\ UNCHANGED <<anVars, apiVars>>)

LiveSpec == Init /\ [][RunStep]_vars /\ WF_vars(RequestEnds) /\ WF_vars(TaskStep)

-----------------------------------------------------------------------------
(* Every operation of the application on one store: the runs of the pipeline
   (ingestion and its write) over what the sources serve, POST /search,
   GET /stats and POST /analyze.
   The handlers are served between the runs, one request at a time; the
   client takes the response before the next step.                          *)

OpsRequests == {<<"8.8.8.8">>, <<"example.com", " ", "CVE-2024-1234">>}
OpsFilters ==
    {NoFilters, SearchFilters(<<"ransomware">>, <<"critical">>, None, <<>>, <<>>, <<>>)}

OpsNext ==
    \/ (ApiIdle /\ RunStep)
    \/ (ApiIdle /\ run_pc = "idle" /\ post_search(OpsFilters, {1}, {DefaultPerPage})
           /\ UNCHANGED <<pipeVars, anVars>>)
    \/ (QueryDone /\ UNCHANGED <<pipeVars, anVars>>)
    \/ (ApiIdle /\ run_pc = "idle" /\ get_stats /\ UNCHANGED <<pipeVars, anVars>>)
    \/ (StatsDone /\ UNCHANGED <<pipeVars, anVars>>)
    \/ (ApiIdle /\ run_pc = "idle" /\ analyze_text_of(OpsRequests)
           /\ UNCHANGED <<pipeVars, anVars>>)
    \/ (AnalyzeDone /\ UNCHANGED <<pipeVars, anVars>>)

OpsSpec == Init /\ [][OpsNext]_vars

-----------------------------------------------------------------------------
(* Properties of the ingestion pipeline and of the store *)

\* save_articles, called by the background task, has ended
SaveEnded == run_pc \in {"saving", "done"} /\ sess[Task].pc \in {"returned", "raised"}

\* the rows the table gained since save_articles was called
NewlyPersisted == Len(threat_articles) - Len(hist.store_before)

BatchUrls == {all_articles[i].url : i \in 1..Len(all_articles)}

\* both runs requested every enabled source with success, the storage engine
\* worked in the first, and no source changed its content in between
SameContentTwice ==
    /\ run_pc = "done"
    /\ hist.prev_ran
    /\ hist.prev_clean
    /\ ~hist.feed_changed
    /\ fetch_failed = {}

\* C1: when ingestion runs twice over unchanged sources (both runs obtain
\* every enabled source's content, and the first run's write meets no
\* storage-engine fault), the second run inserts nothing: the table after the
\* second run is the table after the first, a count the second write returns
\* is 0, and, the first write having committed, the second write returns
\* rather than fails unless the storage engine faults.
C1_ReingestInsertsNothing ==
    SameContentTwice =>
        /\ threat_articles = hist.prev_store
        /\ (sess[Task].pc = "returned" => sess[Task].saved_count = 0)
        /\ (hist.prev_committed /\ all_articles # <<>> /\ ~sess[Task].fault
               => sess[Task].pc = "returned")

C1_Witness ==
    /\ SameContentTwice
    /\ hist.prev_committed
    /\ hist.prev_store # <<>>
    /\ Len(all_articles) >= 2
    /\ sess[Task].pc = "returned"

\* C2: in every state of the table, whatever batches the writers' calls of
\* save_articles carried and however they interleaved, succeeded or failed,
\* no two rows have the same url and no row has a null url.
C2_UrlUniqueNotNull ==
    /\ \A i, j \in 1..Len(threat_articles) :
           i # j => threat_articles[i].url # threat_articles[j].url
    /\ \A i \in 1..Len(threat_articles) : threat_articles[i].url # None

\* a writer's batch was refused by the table while the table holds a row, and
\* the other writer is in the middle of its own batch
C2_Witness ==
    /\ Len(threat_articles) >= 1
    /\ \E w \in DOMAIN sess :
          /\ sess[w].pc = "raised"
          /\ ~sess[w].fault
          /\ \E v \in DOMAIN sess \ {w} : sess[v].pc = "loop" /\ sess[v].pending # <<>>

\* the records of the batch whose url the table already held, with another title
Recollected ==
    {i \in 1..Len(all_articles) :
        \E k \in 1..Len(hist.store_before) :
            /\ hist.store_before[k].url = all_articles[i].url
            /\ hist.store_before[k].title # all_articles[i].title}

\* C3: a record whose url is already stored, written again with another title,
\* changes no field of any stored row (the rows the table held are still its
\* first rows, as they were), is not counted as saved, and raises no error:
\* a write that fails without a storage-engine fault has two records with the
\* same url that was NOT stored.
C3_StoredUrlIsSkipped ==
    SaveEnded =>
        /\ Len(threat_articles) >= Len(hist.store_before)
        /\ SubSeq(threat_articles, 1, Len(hist.store_before)) = hist.store_before
        /\ sess[Task].saved_count <=
               Cardinality({i \in 1..Len(all_articles) :
                               all_articles[i].url \notin StoredUrls(hist.store_before)})
        /\ (sess[Task].pc = "raised" /\ ~sess[Task].fault =>
               \E i, j \in 1..Len(all_articles) :
                   /\ i # j
                   /\ all_articles[i].url = all_articles[j].url
                   /\ all_articles[i].url \notin StoredUrls(hist.store_before))

C3_Witness ==
    /\ SaveEnded
    /\ sess[Task].pc = "returned"
    /\ Recollected # {}

\* C4: absent a storage-engine fault, the write succeeds and the number of
\* records it persists and returns is the number of distinct urls of the
\* batch that were not stored before the call.
C4_PersistsEachNewUrlOnce ==
    SaveEnded /\ ~sess[Task].fault =>
        /\ sess[Task].pc = "returned"
        /\ sess[Task].saved_count = Cardinality(BatchUrls \ StoredUrls(hist.store_before))
        /\ NewlyPersisted = sess[Task].saved_count

\* the batch failed to persist in one of its points: the storage engine
\* faulted, or the table refused a row
PersistenceFailed ==
    \/ sess[Task].fault
    \/ ~Flush(hist.store_before, sess[Task].pending).ok

\* C5: save_articles is all-or-nothing per batch: after a persistence failure
\* at any point, the table holds exactly the rows it held before the call and
\* the call has raised; a call that returns has persisted all of its new rows.
C5_AllOrNothing ==
    SaveEnded =>
        /\ (PersistenceFailed => sess[Task].pc = "raised")
        /\ (sess[Task].pc = "raised" => threat_articles = hist.store_before)
        /\ (sess[Task].pc = "returned" =>
               threat_articles = hist.store_before \o sess[Task].pending)

\* the storage engine faulted in a batch that had rows to write
C5_Witness ==
    /\ SaveEnded
    /\ sess[Task].fault
    /\ Len(sess[Task].pending) >= 2

\* the run whose store write failed is over
FailedRunOver == run_pc = "done" /\ sess[Task].pc = "raised"

\* C6 as stated: when the store write of a run fails, the error reaches the
\* caller of the ingestion operation.
C6_ErrorReachesCaller ==
    FailedRunOver => run_result[1].raised

\* C6 as amended: when the store write of a run fails, save_articles raises
\* to the background task, which logs an error and returns None to its
\* caller without raising; a run logs "completed" only if its write returned.
C6_ErrorLoggedNotRaised ==
    /\ FailedRunOver =>
          /\ ~run_result[1].raised
          /\ run_result[1].value = ReturnNone
          /\ run_log[1].level = "error"
    /\ (run_pc = "done" /\ run_log[1].event = "completed" => sess[Task].pc = "returned")

C6_Witness ==
    /\ FailedRunOver
    /\ run_log # <<>>
    /\ Len(sess[Task].pending) >= 1

\* the run is over and its write, if there was one, did not fail
CompletedRun == run_pc = "done" /\ sess[Task].pc # "raised"

\* C7 as stated: a completed run returns to its caller the number of records
\* it newly persisted, 0 when nothing new was fetched.
C7_RunReturnsInsertedCount ==
    CompletedRun =>
        run_result[1].value =
            ReturnInt(IF sess[Task].pc = "returned" THEN NewlyPersisted ELSE 0)

\* C7 as amended: a completed run returns None to its caller; the number of
\* records newly persisted (not the number fetched) is what save_articles
\* returns to the run, which logs it beside the number fetched; a run that
\* fetched nothing calls no write and logs a warning.
C7_RunLogsInsertedCount ==
    CompletedRun =>
        /\ run_result[1].value = ReturnNone
        /\ ~run_result[1].raised
        /\ IF all_articles # <<>>
           THEN /\ sess[Task].pc = "returned"
                /\ run_log[1].event = "completed"
                /\ run_log[1].saved = NewlyPersisted
                /\ run_log[1].found = Len(all_articles)
           ELSE /\ sess[Task].pc = "idle"
                /\ run_log[1].event = "no_articles"
                /\ threat_articles = hist.prev_store

\* fewer records were persisted than fetched, and not none
C7_Witness ==
    /\ CompletedRun
    /\ sess[Task].pc = "returned"
    /\ NewlyPersisted >= 1
    /\ NewlyPersisted < Len(all_articles)

\* the pass over the sources has ended
PassEnded ==
    \/ run_pc = "scraping" /\ src_idx > Len(Sources)
    \/ run_pc \in {"saving", "done"}

\* every content every source can serve, parsed as a feed and as a page
ParsedContents ==
    {[source |-> s, type |-> "rss", content |-> c,
      articles |-> scrape_rss_feed(s, c)] : s \in SourceSet, c \in FeedContents}
    \cup
    {[source |-> s, type |-> "html", content |-> c,
      articles |-> scrape_html_source(s, c, SourceUrl(s))] :
         s \in SourceSet, c \in FeedContents}

\* what one source served, parsed
SourceArticles(s) ==
    (CHOOSE p \in ParsedContents :
        /\ p.source = s
        /\ p.type = threat_sources[s].type
        /\ p.content = feed[s]).articles

\* the items of the sources of srcs that are enabled and did not fail, in order
RECURSIVE SucceededItems(_)
SucceededItems(srcs) ==
    IF srcs = <<>> THEN <<>>
    ELSE (IF threat_sources[Head(srcs)].enabled /\ Head(srcs) \notin fetch_failed
          THEN SourceArticles(Head(srcs))
          ELSE <<>>) \o SucceededItems(Tail(srcs))

\* C8: a failed request never aborts the pass: at its end every enabled
\* source has been requested, and the list is exactly the concatenation of
\* the items of the sources that succeeded, a failed source adding nothing.
C8_FailedSourceYieldsNothing ==
    PassEnded =>
        /\ hist.requested = {s \in SourceSet : threat_sources[s].enabled}
        /\ all_articles = SucceededItems(Sources)

\* the first source failed and a later one delivered
C8_Witness ==
    /\ PassEnded
    /\ Sources[1] \in fetch_failed
    /\ all_articles # <<>>

-----------------------------------------------------------------------------
(* Properties of analyze_threat_level *)

AnText == LowerStr(FormatTitleContent(an_title, an_content))

\* a keyword of the level matches somewhere in the text as a whole word/phrase
KeywordPresent(level, text) ==
    \E k \in 1..Len(THREAT_KEYWORDS[level]) :
        \E i \in 1..Len(text) : KeywordMatchAt(THREAT_KEYWORDS[level][k], text, i)

\* C9: whenever a critical-tier keyword matches in (title, content) as a whole
\* word or phrase, the level returned is critical, however many high-tier and
\* medium-tier keywords match as well.
C9_CriticalKeywordWins ==
    an_result # <<>> /\ KeywordPresent("critical", AnText) =>
        an_result[1].level = "critical"

\* critical is returned for a text that matches high and medium keywords too
C9_Witness ==
    /\ an_result # <<>>
    /\ an_result[1].level = "critical"
    /\ KeywordPresent("high", AnText)
    /\ KeywordPresent("medium", AnText)

\* the tiers a result is looked for in, in order, and what divides the count
TierOrder == <<"critical", "high", "medium">>
TierDivisor == [critical |-> Rat(3, 1), high |-> Rat(2, 1), medium |-> Rat(3, 2)]

\* conf = min(c / d, 1)
IsCappedRatio(conf, c, d) ==
    IF RatLeq(Rat(c, 1), d)
    THEN RatEq(conf, RatDiv(Rat(c, 1), d))
    ELSE RatEq(conf, Rat(1, 1))

\* C10: the result is the first tier, in the order critical, high, medium,
\* whose match count c is positive, with confidence min(c/3, 1), min(c/2, 1),
\* min(c/1.5, 1); with the three counts zero it is low with confidence 0.3,
\* whatever the count of the low tier.
C10_FirstNonZeroTier ==
    an_result # <<>> =>
        LET c == Scores(AnText)
            r == an_result[1]
            hit == {i \in 1..Len(TierOrder) : c[TierOrder[i]] > 0}
        IN  IF hit # {}
            THEN \E i \in hit :
                    /\ \A j \in hit : i <= j
                    /\ r.level = TierOrder[i]
                    /\ IsCappedRatio(r.confidence, c[TierOrder[i]], TierDivisor[TierOrder[i]])
            ELSE /\ r.level = "low"
                 /\ RatEq(r.confidence, Rat(3, 10))

\* low is returned, with 0.3, for a text that matches low-tier keywords
C10_Witness ==
    /\ an_result # <<>>
    /\ an_result[1].level = "low"
    /\ RatEq(an_result[1].confidence, Rat(3, 10))
    /\ Scores(AnText)["low"] >= 2

\* what the analyzer returns over all the inputs of the model: the level, the
\* match count of that level's keywords, and the confidence
ConfByCount ==
    {LET r == analyze_threat_level(in[1], in[2])
         text == LowerStr(FormatTitleContent(in[1], in[2]))
     IN  [level |-> r.level, count |-> Scores(text)[r.level], confidence |-> r.confidence] :
        in \in Titles \X SeqsUpTo(Vocab, MaxContentLen)}

\* C11: within one result tier the confidence does not decrease when the
\* tier's match count grows, and it never exceeds 1.0: the result of the call,
\* with count c1, against every result of the same tier with a count c2 >= c1.
C11_ConfidenceMonotoneCapped ==
    an_result # <<>> =>
        LET r == an_result[1]
            c1 == Scores(AnText)[r.level]
        IN  /\ RatLeq(r.confidence, Rat(1, 1))
            /\ \A t \in ConfByCount :
                   t.level = r.level /\ c1 <= t.count =>
                       /\ RatLeq(r.confidence, t.confidence)
                       /\ RatLeq(t.confidence, Rat(1, 1))

\* a high result with one match, below a high result with more matches that
\* is capped at 1.0 although count / 2 exceeds it
C11_Witness ==
    /\ an_result # <<>>
    /\ an_result[1].level = "high"
    /\ Scores(AnText)["high"] = 1
    /\ \E t \in ConfByCount :
          /\ t.level = "high"
          /\ t.count >= 3
          /\ RatEq(t.confidence, Rat(1, 1))
          /\ ~RatLeq(t.confidence, an_result[1].confidence)

-----------------------------------------------------------------------------
(* Properties of the stored classification *)

\* C12: every row of threat_articles the pipeline persisted has a
\* threat_level that is one of low, medium, high, critical and a
\* confidence_score in [0.0, 1.0].
C12_LevelAndConfidenceInRange ==
    \A i \in 1..Len(threat_articles) :
        /\ threat_articles[i].threat_level \in {"low", "medium", "high", "critical"}
        /\ RatLeq(Rat(0, 1), threat_articles[i].confidence_score)
        /\ RatLeq(threat_articles[i].confidence_score, Rat(1, 1))

\* a critical article and a high article are stored
C12_Witness ==
    /\ \E i \in 1..Len(threat_articles) : threat_articles[i].threat_level = "critical"
    /\ \E i \in 1..Len(threat_articles) : threat_articles[i].threat_level = "high"

-----------------------------------------------------------------------------
(* Properties of extract_iocs and extract_tags (POST /analyze) *)

ResponseIocs == SeqRange(ex_response[1].iocs)

\* the substrings of the text a pattern matches, from left to right
RECURSIVE MatchedFrom(_, _, _)
MatchedFrom(ioc_type, s, i) ==
    IF i > Len(s) THEN <<>>
    ELSE LET e == MatchEnd(ioc_type, s, i)
         IN  IF e = 0 THEN MatchedFrom(ioc_type, s, i + 1)
             ELSE <<SubSeq(s, i, e)>> \o MatchedFrom(ioc_type, s, e + 1)
Matched(ioc_type, text) == SeqRange(MatchedFrom(ioc_type, text, 1))

\* the four octets of a dotted quad are in [0, 255]
OctetsInRange(w) ==
    LET parts == Split(w, ".")
    IN  Len(parts) = 4 /\ \A k \in 1..4 : ParseInt(parts[k]) \in 0..255

\* C13: a dotted-quad match is emitted as an ip indicator if and only if its
\* four octets are in [0, 255]: never ip:999.999.999.999, always ip:8.8.8.8
\* when 8.8.8.8 is matched; and a rejected match does not keep the other
\* matches of the text (ip, cve, email) from being emitted.
C13_IpEmittedIffOctetsInRange ==
    ex_response # <<>> =>
        /\ \A w \in Matched("ip", ex_text) :
               ("ip:" \o w) \in ResponseIocs <=> OctetsInRange(w)
        /\ "ip:999.999.999.999" \notin ResponseIocs
        /\ ("8.8.8.8" \in Matched("ip", ex_text) => "ip:8.8.8.8" \in ResponseIocs)
        /\ \A w \in Matched("cve", ex_text) : ("cve:" \o w) \in ResponseIocs
        /\ \A w \in Matched("email", ex_text) : ("email:" \o w) \in ResponseIocs

\* 999.999.999.999 was matched and dropped, 8.8.8.8 of the same text emitted
C13_Witness ==
    /\ ex_response # <<>>
    /\ "999.999.999.999" \in Matched("ip", ex_text)
    /\ "ip:8.8.8.8" \in ResponseIocs

\* the validator of each detector type, on the matched substring
PassesValidator(ioc_type, w) ==
    CASE ioc_type = "ip" -> OctetsInRange(w)
      [] ioc_type = "domain" -> Len(w) > 4 /\ \E i \in 1..Len(w) : Char(w, i) = "."
      [] OTHER -> TRUE

\* C14: for every detector type, each match of the pattern that passes the
\* type's validator is in the output as type:matched-substring; a text with
\* the host name example.com yields domain:example.com.
C14_ValidMatchEmittedAsTypeValue ==
    ex_response # <<>> =>
        /\ \A k \in 1..Len(ioc_types) : \A w \in Matched(ioc_types[k], ex_text) :
               PassesValidator(ioc_types[k], w) =>
                   (ioc_types[k] \o ":" \o w) \in ResponseIocs
        /\ ("example.com" \in Matched("domain", ex_text) =>
               "domain:example.com" \in ResponseIocs)

NoDuplicates(l) == \A i, j \in 1..Len(l) : l[i] = l[j] => i = j

\* C15: the iocs list and the tags list of a result hold no entry twice.
C15_NoDuplicateIocsOrTags ==
    ex_response # <<>> =>
        /\ NoDuplicates(ex_response[1].iocs)
        /\ NoDuplicates(ex_response[1].tags)

\* the text repeats an indicator, and the result has tags and indicators
C15_Witness ==
    /\ ex_response # <<>>
    /\ ~NoDuplicates(IocsOfTypes(ioc_types, ex_text))
    /\ Len(ex_response[1].iocs) >= 2
    /\ ex_response[1].tags # <<>>

-----------------------------------------------------------------------------
(* Properties of search_articles (POST /search, GET /articles) *)

Max(a, b) == IF a >= b THEN a ELSE b

\* C16: for page >= 1 and 1 <= per_page <= 100, with total the number of
\* matching articles: pages is the ceiling of total / per_page, the page has
\* min(per_page, max(0, total - (page - 1) * per_page)) items, has_next says
\* that page < pages, that is that matching articles remain after the page,
\* and has_prev says that page > 1.
C16_PaginationArithmetic ==
    \A k \in 1..Len(q_response) :
        LET r == q_response[k]
            page == q_request[k].page
            per_page == q_request[k].per_page
        IN  /\ r.total = Cardinality(Matching(threat_articles, q_request[k].filters))
            /\ r.pages * per_page >= r.total
            /\ (r.pages - 1) * per_page < r.total
            /\ Len(r.items) = Min(per_page, Max(0, r.total - (page - 1) * per_page))
            /\ r.has_next = (page < r.pages)
            /\ r.has_next = (page * per_page < r.total)
            /\ r.has_prev = (page > 1)

\* page 3 of 45 matching articles, 20 to the page: 3 pages, 5 items, no next
\* page, a previous page
C16_Witness ==
    \E k \in 1..Len(q_response) :
        /\ q_request[k].page = 3
        /\ q_request[k].per_page = 20
        /\ q_response[k].total = 45
        /\ q_response[k].pages = 3
        /\ Len(q_response[k].items) = 5
        /\ ~q_response[k].has_next
        /\ q_response[k].has_prev

\* w is a substring of s, whatever the case of the letters
ContainsIgnoringCase(s, w) ==
    \E i \in 1 .. Len(s) - Len(w) + 1 :
        LowerText(SubSeq(s, i, i + Len(w) - 1)) = LowerText(w)

\* the item satisfies the category of the filters, as the categories are
\* defined: a keyword is a substring of a text of the item, the level and the
\* source are among those asked for, the date is within the range, the item
\* has indicators or has none
SatisfiesKeywords(item, keywords) ==
    \E k \in 1..Len(keywords) :
        \/ ContainsIgnoringCase(TextOf(item.title), keywords[k])
        \/ ContainsIgnoringCase(TextOf(item.summary), keywords[k])
        \/ ContainsIgnoringCase(TextOf(item.content), keywords[k])

SatisfiesFilters(item, filters) ==
    /\ Truthy(filters.keywords) => SatisfiesKeywords(item, filters.keywords)
    /\ Truthy(filters.threat_levels) =>
          \E k \in 1..Len(filters.threat_levels) : item.threat_level = filters.threat_levels[k]
    /\ Truthy(filters.sources) =>
          \E k \in 1..Len(filters.sources) : item.source_name = filters.sources[k]
    /\ filters.date_from # <<>> => item.published_date >= filters.date_from[1]
    /\ filters.date_to # <<>> => item.published_date <= filters.date_to[1]
    /\ filters.has_iocs # <<>> => (item.iocs # <<>>) = filters.has_iocs[1]

\* C17: the categories of a filter combine with AND and the keywords with OR:
\* every returned article satisfies every category the filter supplies, the
\* keyword category being satisfied when a keyword is a case-insensitive
\* substring of the title, the summary or the content; a query for the
\* keyword ransomware at the levels high and critical returns no medium
\* article.
C17_ReturnedSatisfiesEveryCategory ==
    \A k \in 1..Len(q_response) : \A n \in 1..Len(q_response[k].items) :
        LET item == q_response[k].items[n]
            filters == q_request[k].filters
        IN  /\ SatisfiesFilters(item, filters)
            /\ (filters.keywords = <<"ransomware">>
                    /\ filters.threat_levels = <<"high", "critical">>)
                   => item.threat_level # "medium"

\* the published dates of the items of one response, in order
ItemDates(r) == [n \in 1..Len(r.items) |-> r.items[n].published_date]
Descending(dates) == \A i, j \in 1..Len(dates) : i < j => dates[i] >= dates[j]

\* the ids of the items of all the responses, in order
RECURSIVE ItemIds(_)
ItemIds(responses) ==
    IF responses = <<>> THEN <<>>
    ELSE [n \in 1..Len(Head(responses).items) |-> Head(responses).items[n].id]
         \o ItemIds(Tail(responses))

\* the client has asked for every page, from the first to the last
AllPagesRead ==
    /\ q_request # <<>>
    /\ q_request[1].page = 1
    /\ ~q_response[Len(q_response)].has_next

DistinctDates(table, ids) ==
    \A i, j \in ids : table[i].published_date = table[j].published_date => i = j

\* C18: within one page the published dates descend; with no write between
\* the requests, no item of page k is older than an item of page k + 1; and
\* when the matching articles have distinct published dates, the pages from
\* the first to the last return each matching article exactly once.
C18_OrderedByPublishedDateDesc ==
    /\ \A k \in 1..Len(q_response) : Descending(ItemDates(q_response[k]))
    /\ \A k \in 1..Len(q_response) - 1 :
           Descending(ItemDates(q_response[k]) \o ItemDates(q_response[k + 1]))
    /\ LET ids == Matching(threat_articles, q_request[1].filters)
       IN  (AllPagesRead /\ DistinctDates(threat_articles, ids)) =>
               /\ NoDuplicates(ItemIds(q_response))
               /\ SeqRange(ItemIds(q_response)) = ids

\* three pages read from first to last, with articles on each
C18_Witness ==
    /\ AllPagesRead
    /\ Len(q_response) = 3
    /\ DistinctDates(threat_articles, Matching(threat_articles, q_request[1].filters))
    /\ \A k \in 1..3 : Len(q_response[k].items) >= 2

-----------------------------------------------------------------------------
(* Properties of the reads that run while batches are written *)

-----------------------------------------------------------------------------
(* Properties of the server process *)

\* C20: ingestion runs concurrently with query serving: while an ingestion
\* run is in progress (fetching its sources, pausing between them, writing
\* its batch), a query or statistics request that has arrived at the server
\* can be served before the run finishes.
C20_ServedWhileRunInProgress ==
    (RunInProgress /\ RequestWaiting) => ENABLED (ServeArticles \/ ServeStats)

\* the run has had a failure: a source could not be fetched, or the write
\* of the batch raised
RunFailed == fetch_failed # {} \/ sess[Task].pc = "raised"

\* C21: the trigger is fire-and-forget: its response is sent before the run
\* fetches any source, it is the same success acknowledgement whatever the
\* run does later, and no failure of the run (of a fetch, of the write)
\* changes it or reaches the caller.
C21_TriggerAcknowledgedBeforeRun ==
    /\ (run_pc \in {"scraping", "saving", "done"} \/ hist.requested # {}) =>
           (q_response # <<>> /\ q_response[1].sent)
    /\ q_response # <<>> => q_response[1].body = ScrapeAck
    /\ RunFailed => (q_response # <<>> /\ q_response[1] = [body |-> ScrapeAck, sent |-> TRUE])
    /\ run_result # <<>> => ~run_result[1].raised

\* a run whose write raised has ended, and the caller holds the success
\* acknowledgement
C21_Witness ==
    /\ run_pc = "done"
    /\ sess[Task].pc = "raised"
    /\ run_log # <<>> /\ run_log[1].level = "error"
    /\ q_response = <<[body |-> ScrapeAck, sent |-> TRUE]>>

-----------------------------------------------------------------------------
(* Properties of get_statistics *)

\* the rows of the table whose list of indicators is not empty
RowsWithIocs(table) == {i \in 1..Len(table) : JsonLoads(table[i].iocs) # <<>>}

\* GET /stats is answered in this step
StatsAnswered == stats_response = <<>> /\ stats_response' # <<>>

\* C22: get_statistics is computed from the store as it is at the call: the
\* total is the number of articles stored then (after a committed batch, the
\* total before the batch plus the number the batch inserted), and the counts
\* by threat level, by source and of the articles with indicators are those
\* of that same state.
C22_StatsOfTheCurrentStore ==
    [][StatsAnswered =>
          LET st == stats_response'[1]
          IN  /\ st.total_articles = Len(threat_articles)
              /\ (run_pc = "done" /\ sess[Task].pc = "returned") =>
                     st.total_articles = Len(hist.store_before) + sess[Task].saved_count
              /\ st.threat_distribution = GroupCount(threat_articles, "threat_level")
              /\ st.source_distribution = GroupCount(threat_articles, "source_name")
              /\ st.articles_with_iocs = Cardinality(RowsWithIocs(threat_articles))]_vars

-----------------------------------------------------------------------------
(* Properties of the stored rows *)

\* the fields of a stored row that no operation may change
PersistedFields(row) ==
    <<row.title, row.summary, row.content, row.url, row.source_name,
      row.published_date, row.threat_level, row.confidence_score, row.tags,
      row.iocs, row.scraped_date>>

\* C23: whatever operation takes a step (the write of a run, a query, the
\* statistics, a classification, the ingestion itself), every row of the store
\* stays where it is with its title, summary, content, url, source, published
\* date, threat level, confidence, tags, indicators and ingestion instant
\* unchanged; rows are only added, and a row that is added gets the instant of
\* its write as ingestion instant and a view count of 0.
C23_PersistedRowsNeverChange ==
    [][ /\ Len(threat_articles') >= Len(threat_articles)
        /\ \A i \in 1..Len(threat_articles) :
              PersistedFields(threat_articles'[i]) = PersistedFields(threat_articles[i])
        /\ \A i \in (Len(threat_articles) + 1)..Len(threat_articles') :
              /\ threat_articles'[i].scraped_date = sql_now(hist)
              /\ threat_articles'[i].views = 0 ]_vars

\* a later run has met the url of a row of an earlier run again, under another
\* title: the old row has kept its title and its ingestion instant
C23_Witness ==
    /\ run_pc = "done"
    /\ hist.prev_ran
    /\ \E i \in 1..Len(threat_articles) :
          /\ threat_articles[i].scraped_date = datetime_now
          /\ threat_articles[i].views = 0
          /\ \E k \in 1..Len(all_articles) :
                /\ all_articles[k].url = threat_articles[i].url
                /\ all_articles[k].title # threat_articles[i].title
-----------------------------------------------------------------------------
(* Properties of the scrapers *)

\* C24: every record the pass hands to save_articles, from an RSS feed or from
\* an HTML page, has a non-empty title and a non-empty url; an entry or
\* container lacking either is left out while the others are kept.
C24_HandedRecordsHaveTitleAndUrl ==
    \A k \in 1..Len(sess[Task].articles_data) :
        /\ sess[Task].articles_data[k].title # <<>>
        /\ sess[Task].articles_data[k].url # <<>>

\* the records of a list that name the source
FromSource(articles, source_name) ==
    {k \in 1..Len(articles) : articles[k].source_name = source_name}
EnabledSources == {t \in SourceSet : threat_sources[t].enabled}

\* C25: in a run each source contributes at most MAX_ARTICLES_PER_SOURCE
\* records, whether it is an RSS feed or an HTML page, so the list handed to
\* save_articles holds at most MAX_ARTICLES_PER_SOURCE records for each
\* enabled source.
C25_AtMostMaxArticlesPerSource ==
    /\ \A t \in SourceSet :
          /\ Cardinality(FromSource(all_articles, t)) <= MAX_ARTICLES_PER_SOURCE
          /\ Cardinality(FromSource(sess[Task].articles_data, t)) <= MAX_ARTICLES_PER_SOURCE
    /\ Len(all_articles) <= MAX_ARTICLES_PER_SOURCE * Cardinality(EnabledSources)
    /\ Len(sess[Task].articles_data) <= MAX_ARTICLES_PER_SOURCE * Cardinality(EnabledSources)

\* an RSS source and an HTML source each serve more than the cap, and the
\* list handed to save_articles holds exactly the cap of each
C25_Witness ==
    /\ run_pc = "saving"
    /\ \E r, h \in EnabledSources :
          /\ threat_sources[r].type = "rss"
          /\ threat_sources[h].type = "html"
          /\ Len(feed[r]) > MAX_ARTICLES_PER_SOURCE
          /\ Len(feed[h]) > MAX_ARTICLES_PER_SOURCE
          /\ Cardinality(FromSource(sess[Task].articles_data, r)) = MAX_ARTICLES_PER_SOURCE
          /\ Cardinality(FromSource(sess[Task].articles_data, h)) = MAX_ARTICLES_PER_SOURCE

\* the enabled sources among the first n of the configuration, in its order
RECURSIVE EnabledPrefix(_)
EnabledPrefix(n) ==
    IF n = 0 THEN <<>>
    ELSE IF threat_sources[Sources[n]].enabled
         THEN Append(EnabledPrefix(n - 1), Sources[n])
         ELSE EnabledPrefix(n - 1)

\* C26: in a run the sources are requested one after the other in the order
\* of the configuration, each enabled source exactly once whether its request
\* succeeds or fails, a disabled source never, and a disabled source adds no
\* record; save_articles is called only when the last source has been
\* processed; until then the run has no session open.
C26_SourcesInOrderOnceThenWrite ==
    /\ hist.request_log = EnabledPrefix(IF src_idx = 0 THEN 0 ELSE src_idx - 1)
    /\ \A t \in SourceSet \ EnabledSources : FromSource(all_articles, t) = {}
    /\ sess[Task].pc # "idle" =>
          /\ src_idx = Len(Sources) + 1
          /\ hist.request_log = EnabledPrefix(Len(Sources))
    /\ run_pc = "scraping" => sess[Task].pc = "idle"

\* a request of the run has failed, every enabled source has been requested,
\* and the write of what the others gave is under way
C26_Witness ==
    /\ run_pc = "saving"
    /\ fetch_failed # {}
    /\ Len(hist.request_log) >= 2
    /\ sess[Task].pending # <<>>
-----------------------------------------------------------------------------
(* Properties of one get_statistics call among the writes *)

\* the sum of the counts of a distribution
RECURSIVE SumOf(_)
SumOf(f) ==
    IF DOMAIN f = {} THEN 0
    ELSE LET v == CHOOSE x \in DOMAIN f : TRUE
         IN  f[v] + SumOf([x \in DOMAIN f \ {v} |-> f[x]])

\* C27: in every dict get_statistics returns, the counts per threat level sum
\* to total_articles, the counts per source sum to total_articles, and
\* articles_with_iocs is at most total_articles, also when a batch commits
\* between the count queries of the call.
C27_StatsSumsAgree ==
    stats_response # <<>> =>
        /\ SumOf(stats_response[1].threat_distribution) = stats_response[1].total_articles
        /\ SumOf(stats_response[1].source_distribution) = stats_response[1].total_articles
        /\ stats_response[1].articles_with_iocs <= stats_response[1].total_articles
-----------------------------------------------------------------------------
(* Properties of the list filters of search_articles *)

ListFields == {"keywords", "threat_levels", "sources"}

\* C28: a search whose keywords, threat_levels or sources is the empty list
\* is answered as the same search without that filter: the same total and
\* the same items.
C28_EmptyListIsNoFilter ==
    \A k \in 1..Len(q_request) :
        \A field \in ListFields :
            LET r == q_request[k]
                absent == [r.filters EXCEPT ![field] = None]
            IN  r.filters[field] = <<>> =>
                    /\ search_articles(threat_articles, r.filters, r.page, r.per_page)
                          = search_articles(threat_articles, absent, r.page, r.per_page)
                    /\ q_response[k]
                          \in search_articles(threat_articles, absent, r.page, r.per_page)

\* a search with a keyword and an empty threat_levels list has been answered
\* with some of the stored articles, not all and not none
C28_Witness ==
    /\ q_request # <<>>
    /\ q_request[1].filters.threat_levels = <<>>
    /\ q_request[1].filters.sources = <<>>
    /\ Truthy(q_request[1].filters.keywords)
    /\ q_response[1].total > 0
    /\ q_response[1].total < Len(threat_articles)
-----------------------------------------------------------------------------
(* Properties of the runs of one server process *)

RunsInProgress == {w \in Writers : sess[w].pc # "idle"}

\* C29: the runs triggered on one server process never interleave: at most
\* one run is between its start and the end of its write, so a run starts
\* only when the one before it has committed or rolled back; and no url a
\* run has found missing and added to its session is inserted by another run
\* before its commit.
C29_RunsNeverInterleave ==
    /\ Cardinality(RunsInProgress) <= 1
    /\ \A w \in Writers :
          sess[w].pc = "loop" =>
              \A k \in 1..Len(sess[w].pending) :
                  ~ExistingQuery(threat_articles, <<>>, sess[w].pending[k].url)

\* while a trigger waits, a run that started after the commit of another is
\* in its write and has found the url of its first article stored
C29_Witness ==
    /\ q_request # <<>>
    /\ threat_articles # <<>>
    /\ \E w \in Writers :
          /\ sess[w].pc = "loop"
          /\ sess[w].idx > 1
          /\ sess[w].saved_count = 0
          /\ ExistingQuery(threat_articles, <<>>, sess[w].articles_data[1].url)
-----------------------------------------------------------------------------
(* Termination of a run *)

\* the run is over: its batch is committed, or rolled back, or it made no
\* write at all
RunFinished ==
    /\ run_pc = "done"
    /\ src_idx = Len(Sources) + 1
    /\ \/ sess[Task].pc = "returned" /\ threat_articles = hist.store_before \o sess[Task].pending
       \/ sess[Task].pc = "raised" /\ threat_articles = hist.store_before
       \/ sess[Task].pc = "idle" /\ all_articles = <<>>

\* C30: every run that has started finishes, whatever requests fail, provided
\* each request returns or raises: it comes to its end with every source
\* passed once and with its batch committed, rolled back, or never written.
C30_RunEventuallyFinishes == (run_pc = "scraping") ~> RunFinished

\* a run has finished with a committed batch although a request failed
C30_Witness ==
    /\ RunFinished
    /\ fetch_failed # {}
    /\ sess[Task].pc = "returned"
    /\ sess[Task].saved_count > 0
====
